---- MODULE Spec2Model ----
(***************************************************************************)
(* A model of errstklint, the analyzer of go-errstk                        *)
(* (src/errstklint/analyzer.go).                                           *)
(*                                                                         *)
(* Go strings are modelled as sequences of one-character strings, so that  *)
(* the string functions of the code (strings.Index, strings.Split,         *)
(* strings.Trim, filepath.Match, filepath.Base, the two regular            *)
(* expressions) are computed character by character as the code does.      *)
(***************************************************************************)
EXTENDS Integers, Sequences, FiniteSets, TLC

VARIABLES
    \* ---- the exclusion engine applied to one path (shouldExclude) ----
    mFilename,      \* the path handed to shouldExclude
    mPatterns,      \* the pattern list handed to shouldExclude
    mResult,        \* [done, value]: the result of shouldExclude
    mPrev,          \* [done, value]: the result before the list was last changed
    mOp,            \* the last operation: "init", "call", "add", "swap", "star"
    mStar,          \* [done, pattern, value]: the last matchDoubleStarPattern call
    \* ---- the rule applied to one function declaration ----
    rDecl,          \* the *ast.FuncDecl
    rName,          \* [done, value]: the result of getErrorReturnName
    rHas,           \* [done, value]: the result of hasDeferErrStkWrap
    rIs,            \* [done, stmt, errorVar, value]: the last isDeferErrStkWrap call
    \* ---- the directive parser applied to one comment ----
    dText,          \* the text of the comment (c.Text)
    dResult,        \* [done, value]: what parseNolintDirectives makes of it
    \* ---- the analyzer ----
    config,         \* the package variable config (*Config)
    excludeFlag,    \* the package variable excludeFlag (the -exclude flag)
    pc,             \* "idle", "visit" (inside inspect.Preorder) or "done"
    pass,           \* the *analysis.Pass of the current run
    excludePatterns,\* the local excludePatterns of run
    ignoredRanges,  \* the local ignoredRanges of run: filename -> ranges
    visitIdx,            \* the index of the next function declaration Preorder visits
    diags,          \* the diagnostics reported to the pass, in order
    setExclude,     \* history: the Exclude list of the last non-nil SetConfig argument
    \* ---- a caller of package errstk ----
    lErr,           \* the caller's error variable err
    lOther,         \* a second error variable of the caller
    lOp,            \* the last call: "init", "Clear", "New", "Errorf", "Join", "Store", "With", "Wrap", "WalkStack"
    lArg,           \* the error handed to the last With, Wrap or WalkStack call
    lCalls          \* [done, value]: the calls of f made by the last WalkStack

mvars == <<mFilename, mPatterns, mResult, mPrev, mOp, mStar>>

rvars == <<rDecl, rName, rHas, rIs>>

dvars == <<dText, dResult>>

avars == <<config, excludeFlag, pc, pass, excludePatterns, ignoredRanges, visitIdx, diags,
          setExclude>>

lvars == <<lErr, lOther, lOp, lArg, lCalls>>

vars == <<mvars, rvars, dvars, avars, lvars>>

----------------------------------------------------------------------------
(***************************************************************************)
(* Go string primitives.                                                   *)
(***************************************************************************)

\* s[n:]
Drop(s, n) == SubSeq(s, n + 1, Len(s))

\* s[:n]
Take(s, n) == SubSeq(s, 1, n)

\* strings.HasPrefix
HasPrefix(s, prefix) == Len(prefix) <= Len(s) /\ Take(s, Len(prefix)) = prefix

\* strings.HasSuffix
HasSuffix(s, suffix) ==
    Len(suffix) <= Len(s) /\ Drop(s, Len(s) - Len(suffix)) = suffix

\* strings.Index: the 0-based index of the first occurrence of substr, or -1
Index(s, substr) ==
    LET at(i) == SubSeq(s, i + 1, i + Len(substr)) = substr
        hits == {i \in 0..(Len(s) - Len(substr)) : at(i)}
    IN  IF hits = {} THEN -1
        ELSE CHOOSE i \in hits : \A j \in hits : i <= j

\* strings.Contains
Contains(s, substr) == Index(s, substr) >= 0

\* strings.Split for a non-empty separator
RECURSIVE Split(_, _)
Split(s, sep) ==
    LET i == Index(s, sep)
    IN  IF i = -1 THEN <<s>>
        ELSE <<Take(s, i)>> \o Split(Drop(s, i + Len(sep)), sep)

\* strings.TrimLeft / strings.TrimRight / strings.Trim with a cutset
RECURSIVE TrimLeft(_, _)
TrimLeft(s, cutset) ==
    IF Len(s) > 0 /\ s[1] \in cutset THEN TrimLeft(Tail(s), cutset) ELSE s

RECURSIVE TrimRight(_, _)
TrimRight(s, cutset) ==
    IF Len(s) > 0 /\ s[Len(s)] \in cutset
    THEN TrimRight(Take(s, Len(s) - 1), cutset)
    ELSE s

Trim(s, cutset) == TrimRight(TrimLeft(s, cutset), cutset)

\* unicode.IsSpace over the characters of the model
WhiteSpace == {" ", "\t"}

\* strings.TrimSpace
TrimSpace(s) == Trim(s, WhiteSpace)

\* strings.TrimPrefix
TrimPrefix(s, prefix) == IF HasPrefix(s, prefix) THEN Drop(s, Len(prefix)) ELSE s

----------------------------------------------------------------------------
(***************************************************************************)
(* path/filepath on a slash-separated (Unix) build.                        *)
(***************************************************************************)

\* filepath.Separator
Separator == "/"

\* filepath.ToSlash: every Separator becomes a slash
ToSlash(path) == [i \in 1..Len(path) |-> IF path[i] = Separator THEN "/" ELSE path[i]]

\* filepath.Base
Base(path) ==
    IF path = <<>> THEN <<".">>
    ELSE LET p == TrimRight(path, {Separator})
             seps == {i \in 1..Len(p) : p[i] = Separator}
             last == IF seps = {} THEN 0
                     ELSE CHOOSE i \in seps : \A j \in seps : j <= i
             b == Drop(p, last)
         IN  IF b = <<>> THEN <<Separator>> ELSE b

\* The byte order of the characters, for the ranges of a character class.
AsciiOrder ==
    <<"\t", " ", "&", "*", ",", "-", ".", "/", ":", "?", "[", "\\", "]", "^", "_",
      "a", "b", "c", "d", "e", "f", "g", "h", "i", "j", "k", "l", "m", "n", "o",
      "p", "q", "r", "s", "t", "u", "v", "w", "x", "y", "z">>

Ord(c) == IF c = "" THEN 0 ELSE CHOOSE i \in 1..Len(AsciiOrder) : AsciiOrder[i] = c

\* filepath.ErrBadPattern, as the result of Match
BadPattern == [matched |-> FALSE, err |-> TRUE]

\* scanChunk: the leading stars, the chunk up to the next star outside a
\* character class, and the rest of the pattern
RECURSIVE ScanEnd(_, _, _)
ScanEnd(pattern, i, inrange) ==
    IF i >= Len(pattern) THEN i
    ELSE LET c == pattern[i + 1]
         IN  CASE c = "\\" ->
                    ScanEnd(pattern, (IF i + 1 < Len(pattern) THEN i + 1 ELSE i) + 1, inrange)
               [] c = "["  -> ScanEnd(pattern, i + 1, TRUE)
               [] c = "]"  -> ScanEnd(pattern, i + 1, FALSE)
               [] c = "*"  -> IF inrange THEN ScanEnd(pattern, i + 1, inrange) ELSE i
               [] OTHER    -> ScanEnd(pattern, i + 1, inrange)

scanChunk(pattern) ==
    LET p == TrimLeft(pattern, {"*"})
        i == ScanEnd(p, 0, FALSE)
    IN  [star |-> Len(p) < Len(pattern), chunk |-> Take(p, i), rest |-> Drop(p, i)]

\* getEsc: one, possibly escaped, character of a character class
getEsc(chunk) ==
    IF Len(chunk) = 0 \/ chunk[1] = "-" \/ chunk[1] = "]"
    THEN [r |-> "", nchunk |-> chunk, err |-> TRUE]
    ELSE LET c == IF chunk[1] = "\\" THEN Tail(chunk) ELSE chunk
         IN  IF Len(c) = 0 THEN [r |-> "", nchunk |-> c, err |-> TRUE]
             ELSE [r |-> c[1], nchunk |-> Tail(c), err |-> Len(c) = 1]

\* the range loop of matchChunk's character class; r is the character read
RECURSIVE classRanges(_, _, _, _)
classRanges(chunk, r, match, nrange) ==
    IF Len(chunk) > 0 /\ chunk[1] = "]" /\ nrange > 0
    THEN [chunk |-> Tail(chunk), match |-> match, err |-> FALSE]
    ELSE LET lo == getEsc(chunk)
         IN  IF lo.err THEN [chunk |-> <<>>, match |-> FALSE, err |-> TRUE]
             ELSE LET ranged == lo.nchunk[1] = "-"
                      hi == IF ranged THEN getEsc(Tail(lo.nchunk)) ELSE lo
                  IN  IF hi.err THEN [chunk |-> <<>>, match |-> FALSE, err |-> TRUE]
                      ELSE classRanges(hi.nchunk, r,
                                       match \/ (Ord(lo.r) <= Ord(r) /\ Ord(r) <= Ord(hi.r)),
                                       nrange + 1)

\* matchChunk: chunk against the start of s; after a failure the chunk is
\* still scanned for syntax errors but s is no longer read
RECURSIVE matchChunkLoop(_, _, _)
matchChunkLoop(chunk, s, failed0) ==
    IF Len(chunk) = 0
    THEN IF failed0 THEN [rest |-> <<>>, ok |-> FALSE, err |-> FALSE]
         ELSE [rest |-> s, ok |-> TRUE, err |-> FALSE]
    ELSE LET failed == failed0 \/ Len(s) = 0
             s1 == IF failed THEN s ELSE Tail(s)
             bad == [rest |-> <<>>, ok |-> FALSE, err |-> TRUE]
         IN  CASE chunk[1] = "[" ->
                    LET r == IF failed THEN "" ELSE s[1]
                        c1 == Tail(chunk)
                        negated == Len(c1) > 0 /\ c1[1] = "^"
                        c2 == IF negated THEN Tail(c1) ELSE c1
                        cls == classRanges(c2, r, FALSE, 0)
                    IN  IF cls.err THEN bad
                        ELSE matchChunkLoop(cls.chunk, s1, failed \/ (cls.match = negated))
               [] chunk[1] = "?" ->
                    matchChunkLoop(Tail(chunk), s1, failed \/ s[1] = Separator)
               [] chunk[1] = "\\" ->
                    IF Len(chunk) = 1 THEN bad
                    ELSE matchChunkLoop(Drop(chunk, 2), s1, failed \/ chunk[2] # s[1])
               [] OTHER ->
                    matchChunkLoop(Tail(chunk), s1, failed \/ chunk[1] # s[1])

matchChunk(chunk, s) == matchChunkLoop(chunk, s, FALSE)

\* the tail of Match: the rest of the pattern is checked for syntax errors
RECURSIVE validRest(_)
validRest(pattern) ==
    IF Len(pattern) = 0 THEN [matched |-> FALSE, err |-> FALSE]
    ELSE LET sc == scanChunk(pattern)
         IN  IF matchChunk(sc.chunk, <<>>).err THEN BadPattern ELSE validRest(sc.rest)

\* the star loop of Match: the chunk is tried after skipping i+1 characters,
\* never skipping a separator
RECURSIVE starLoop(_, _, _, _)
starLoop(chunk, rest, name, i) ==
    IF ~(i < Len(name) /\ name[i + 1] # Separator)
    THEN [found |-> FALSE, err |-> FALSE, rest |-> <<>>]
    ELSE LET m == matchChunk(chunk, Drop(name, i + 1))
         IN  IF m.ok
             THEN IF Len(rest) = 0 /\ Len(m.rest) > 0
                  THEN starLoop(chunk, rest, name, i + 1)
                  ELSE [found |-> TRUE, err |-> FALSE, rest |-> m.rest]
             ELSE IF m.err THEN [found |-> FALSE, err |-> TRUE, rest |-> <<>>]
             ELSE starLoop(chunk, rest, name, i + 1)

\* filepath.Match(pattern, name) -> (matched, err)
RECURSIVE Match(_, _)
Match(pattern, name) ==
    IF Len(pattern) = 0 THEN [matched |-> Len(name) = 0, err |-> FALSE]
    ELSE LET sc == scanChunk(pattern)
         IN  IF sc.star /\ sc.chunk = <<>>
             THEN [matched |-> ~Contains(name, <<Separator>>), err |-> FALSE]
             ELSE LET m == matchChunk(sc.chunk, name)
                  IN  IF m.ok /\ (Len(m.rest) = 0 \/ Len(sc.rest) > 0)
                      THEN Match(sc.rest, m.rest)
                      ELSE IF m.err THEN BadPattern
                      ELSE LET st == IF sc.star
                                     THEN starLoop(sc.chunk, sc.rest, name, 0)
                                     ELSE [found |-> FALSE, err |-> FALSE, rest |-> <<>>]
                           IN  IF st.found THEN Match(sc.rest, st.rest)
                               ELSE IF st.err THEN BadPattern
                               ELSE validRest(sc.rest)

----------------------------------------------------------------------------
(***************************************************************************)
(* The exclusion engine: shouldExclude and matchDoubleStarPattern.         *)
(***************************************************************************)

\* the fragments of a pattern: strings.Split(pattern, "**"), each trimmed of "/"
DoubleStarParts(pattern) ==
    LET parts == Split(pattern, <<"*", "*">>)
    IN  [i \in 1..Len(parts) |-> Trim(parts[i], {"/"})]

\* the loop of matchDoubleStarPattern had every fragment been searched from
\* the start of the filename
RECURSIVE doubleStarLoop_unordered(_, _, _, _)
doubleStarLoop_unordered(filename, parts, i, currentPos) ==
    IF i >= Len(parts) THEN FALSE
    ELSE LET part == parts[i + 1]
             idx == Index(filename, part)
         IN  IF part = <<>> THEN doubleStarLoop_unordered(filename, parts, i + 1, currentPos)
             ELSE IF i = Len(parts) - 1 /\ i # 0
             THEN Match(part, Base(filename)).matched \/ HasSuffix(filename, part)
             ELSE IF idx = -1 THEN FALSE
                  ELSE doubleStarLoop_unordered(filename, parts, i + 1, idx + Len(part))

\* the loop of matchDoubleStarPattern had the last fragment been looked for
\* after the cursor only
RECURSIVE doubleStarLoop_cursorFinal(_, _, _, _)
doubleStarLoop_cursorFinal(filename, parts, i, currentPos) ==
    IF i >= Len(parts) THEN FALSE
    ELSE LET part == parts[i + 1]
             idx == Index(Drop(filename, currentPos), part)
         IN  IF part = <<>> THEN doubleStarLoop_cursorFinal(filename, parts, i + 1, currentPos)
             ELSE IF i = 0
             THEN IF ~HasPrefix(filename, part)
                  THEN IF idx = -1 THEN FALSE
                       ELSE doubleStarLoop_cursorFinal(filename, parts, i + 1,
                                                       currentPos + idx + Len(part))
                  ELSE doubleStarLoop_cursorFinal(filename, parts, i + 1, Len(part))
             ELSE IF i = Len(parts) - 1
             THEN \/ Match(part, Base(filename)).matched
                  \/ HasSuffix(Drop(filename, currentPos), part)
             ELSE IF idx = -1 THEN FALSE
                  ELSE doubleStarLoop_cursorFinal(filename, parts, i + 1,
                                                  currentPos + idx + Len(part))

\* the loop of matchDoubleStarPattern had it returned true once every
\* fragment was passed
RECURSIVE doubleStarLoop_endMatches(_, _, _, _)
doubleStarLoop_endMatches(filename, parts, i, currentPos) ==
    IF i >= Len(parts) THEN TRUE
    ELSE LET part == parts[i + 1]
             idx == Index(Drop(filename, currentPos), part)
         IN  IF part = <<>> THEN doubleStarLoop_endMatches(filename, parts, i + 1, currentPos)
             ELSE IF i = 0
             THEN IF ~HasPrefix(filename, part)
                  THEN IF idx = -1 THEN FALSE
                       ELSE doubleStarLoop_endMatches(filename, parts, i + 1,
                                                      currentPos + idx + Len(part))
                  ELSE doubleStarLoop_endMatches(filename, parts, i + 1, Len(part))
             ELSE IF i = Len(parts) - 1
             THEN Match(part, Base(filename)).matched \/ HasSuffix(filename, part)
             ELSE IF idx = -1 THEN FALSE
                  ELSE doubleStarLoop_endMatches(filename, parts, i + 1,
                                                 currentPos + idx + Len(part))

\* the loop of matchDoubleStarPattern from part i (0-based) with the cursor
\* at currentPos
RECURSIVE doubleStarLoop(_, _, _, _)
doubleStarLoop(filename, parts, i, currentPos) ==
    IF i >= Len(parts) THEN FALSE    \* all parts were empty
    ELSE LET part == parts[i + 1]
             idx == Index(Drop(filename, currentPos), part)
         IN  IF part = <<>> THEN doubleStarLoop(filename, parts, i + 1, currentPos)
             ELSE IF i = 0
             THEN IF ~HasPrefix(filename, part)
                  THEN IF idx = -1 THEN FALSE
                       ELSE doubleStarLoop(filename, parts, i + 1,
                                           currentPos + idx + Len(part))
                  ELSE doubleStarLoop(filename, parts, i + 1, Len(part))
             ELSE IF i = Len(parts) - 1
             THEN Match(part, Base(filename)).matched \/ HasSuffix(filename, part)
             ELSE IF idx = -1 THEN FALSE
                  ELSE doubleStarLoop(filename, parts, i + 1,
                                      currentPos + idx + Len(part))

matchDoubleStarPattern(filename, pattern) ==
    doubleStarLoop(filename, DoubleStarParts(pattern), 0, 0)

\* one iteration of the loop of shouldExclude: does this pattern exclude the
\* (normalized) filename
excludedBy(filename, pattern0) ==
    LET pattern == ToSlash(pattern0)
        full == Match(pattern, filename)
        base == Match(pattern, Base(filename))
    IN  \/ (~full.err /\ full.matched)
        \/ (~base.err /\ base.matched)
        \/ (Contains(pattern, <<"*", "*">>) /\ matchDoubleStarPattern(filename, pattern))

\* the loop of shouldExclude had it returned after the first pattern
excludeLoop_firstOnly(filename, patterns, i) ==
    i <= Len(patterns) /\ excludedBy(filename, patterns[i])

\* the loop of shouldExclude over patterns[i..]
RECURSIVE excludeLoop(_, _, _)
excludeLoop(filename, patterns, i) ==
    IF i > Len(patterns) THEN FALSE
    ELSE IF excludedBy(filename, patterns[i]) THEN TRUE
    ELSE excludeLoop(filename, patterns, i + 1)

shouldExclude(filename, patterns) ==
    IF Len(patterns) = 0 THEN FALSE
    ELSE excludeLoop(ToSlash(filename), patterns, 1)

----------------------------------------------------------------------------
(***************************************************************************)
(* The syntax tree the rule reads (go/ast, go/types).  Identifiers are     *)
(* atomic strings: the code only compares them for equality.               *)
(*                                                                         *)
(*   type  : [named, pkg, name]      named = a *types.Named, pkg = "" for  *)
(*                                   a predeclared object                  *)
(*   field : [names, type]           one entry of FuncType.Results.List    *)
(*   expr  : [kind, name, op, x]     kind "ident" (name), "unary" (op, x), *)
(*                                   "selector" (x.name), "funclit"        *)
(*   call  : [fun, args, inner]      inner = the statements of fun's body  *)
(*                                   when fun is a function literal        *)
(*   stmt  : [kind, call, list]      kind "defer" (call), "expr", "decl",  *)
(*                                   "block" (list = the nested statements)*)
(***************************************************************************)

NoExpr == [kind |-> "none", name |-> "", op |-> ""]

Ident(n) == [kind |-> "ident", name |-> n, op |-> "", x |-> NoExpr]

\* x.sel where x is an identifier
Selector(q, sel) ==
    [kind |-> "selector", name |-> sel, op |-> "",
     x |-> [kind |-> "ident", name |-> q, op |-> ""]]

\* a.b.sel: the qualifier is itself a selector expression
DeepSelector(sel) ==
    [kind |-> "selector", name |-> sel, op |-> "",
     x |-> [kind |-> "selector", name |-> "b", op |-> ""]]

\* op v where v is an identifier
Unary(o, v) ==
    [kind |-> "unary", name |-> "", op |-> o,
     x |-> [kind |-> "ident", name |-> v, op |-> ""]]

\* &x.v: the operand is a selector expression
AddrOfField(v) ==
    [kind |-> "unary", name |-> "", op |-> "&",
     x |-> [kind |-> "selector", name |-> v, op |-> ""]]

FuncLit == [kind |-> "funclit", name |-> "", op |-> "", x |-> NoExpr]

Call(f, as) == [fun |-> f, args |-> as, inner |-> <<>>]

NoCall == [fun |-> NoExpr, args |-> <<>>, inner |-> <<>>]

DeferStmt(c) == [kind |-> "defer", call |-> c, list |-> <<>>]

ExprStmt == [kind |-> "expr", call |-> NoCall, list |-> <<>>]

DeclStmt == [kind |-> "decl", call |-> NoCall, list |-> <<>>]

BlockStmt(l) == [kind |-> "block", call |-> NoCall, list |-> l]

\* defer func() { <inner> }()
DeferClosure(l) ==
    [kind |-> "defer", call |-> [fun |-> FuncLit, args |-> <<>>, inner |-> l],
     list |-> <<>>]

ErrorType == [named |-> TRUE, pkg |-> "", name |-> "error"]

\* a basic type: not a *types.Named
StringType == [named |-> FALSE, pkg |-> "", name |-> "string"]

\* a type named error that is declared in a package
LocalErrorType == [named |-> TRUE, pkg |-> "a", name |-> "error"]

----------------------------------------------------------------------------
(***************************************************************************)
(* The rule: getErrorReturnName, isErrorType, hasDeferErrStkWrap,          *)
(* isDeferErrStkWrap.                                                      *)
(***************************************************************************)

\* isErrorType had it compared the name of the type alone
isErrorType_byName(t) == t.named /\ t.name = "error"

\* isErrorType: the predeclared named type error
isErrorType(t) == t.named /\ t.pkg = "" /\ t.name = "error"

\* the loop of getErrorReturnName had it not read the declared name
RECURSIVE errorReturnLoop_alwaysErr(_, _)
errorReturnLoop_alwaysErr(results, i) ==
    IF i > Len(results) THEN ""
    ELSE IF isErrorType(results[i].type) THEN "err"
    ELSE errorReturnLoop_alwaysErr(results, i + 1)

\* the loop of getErrorReturnName had it taken the last name of the field
RECURSIVE errorReturnLoop_lastName(_, _)
errorReturnLoop_lastName(results, i) ==
    IF i > Len(results) THEN ""
    ELSE IF isErrorType(results[i].type)
    THEN IF Len(results[i].names) > 0
         THEN results[i].names[Len(results[i].names)]
         ELSE "err"
    ELSE errorReturnLoop_lastName(results, i + 1)

\* the loop of getErrorReturnName over results[i..]
RECURSIVE errorReturnLoop(_, _)
errorReturnLoop(results, i) ==
    IF i > Len(results) THEN ""
    ELSE IF isErrorType(results[i].type)
         THEN IF Len(results[i].names) > 0 THEN results[i].names[1] ELSE "err"
         ELSE errorReturnLoop(results, i + 1)

\* getErrorReturnName: "" when the function returns no error
getErrorReturnName(funcDecl) == errorReturnLoop(funcDecl.results, 1)

\* isDeferErrStkWrap had it insisted on the qualifier errstk
isDeferErrStkWrap_strict(deferStmt, errorVar) ==
    LET fun == deferStmt.call.fun
        args == deferStmt.call.args
    IN  /\ fun.kind = "selector" /\ fun.name = "Wrap"
        /\ fun.x.kind = "ident" /\ fun.x.name = "errstk"
        /\ Len(args) > 0
        /\ args[1].kind = "unary" /\ args[1].op = "&"
        /\ args[1].x.kind = "ident" /\ args[1].x.name = errorVar

\* isDeferErrStkWrap
isDeferErrStkWrap(deferStmt, errorVar) ==
    LET fun == deferStmt.call.fun
        args == deferStmt.call.args
    IN  IF fun.kind # "selector" THEN FALSE
        ELSE IF fun.name # "Wrap" THEN FALSE
        ELSE IF fun.x.kind # "ident" THEN FALSE
        ELSE IF Len(args) = 0 THEN FALSE
        ELSE IF args[1].kind # "unary" THEN FALSE
        ELSE IF args[1].op # "&" THEN FALSE
        ELSE IF args[1].x.kind # "ident" THEN FALSE
        ELSE args[1].x.name = errorVar

\* the loop of hasDeferErrStkWrap had it descended into inner blocks and
\* deferred closures
RECURSIVE deferLoop_deep(_, _, _)
deferLoop_deep(list, errorVar, i) ==
    IF i > Len(list) THEN FALSE
    ELSE IF list[i].kind = "block" /\ deferLoop_deep(list[i].list, errorVar, 1) THEN TRUE
    ELSE IF list[i].kind # "defer" THEN deferLoop_deep(list, errorVar, i + 1)
    ELSE IF isDeferErrStkWrap(list[i], errorVar) THEN TRUE
    ELSE IF deferLoop_deep(list[i].call.inner, errorVar, 1) THEN TRUE
    ELSE deferLoop_deep(list, errorVar, i + 1)

\* the loop of hasDeferErrStkWrap had it stopped at the first defer statement
RECURSIVE deferLoop_firstDefer(_, _, _)
deferLoop_firstDefer(list, errorVar, i) ==
    IF i > Len(list) THEN FALSE
    ELSE IF list[i].kind # "defer" THEN deferLoop_firstDefer(list, errorVar, i + 1)
    ELSE isDeferErrStkWrap(list[i], errorVar)

\* the loop of hasDeferErrStkWrap over Body.List[i..]
RECURSIVE deferLoop(_, _, _)
deferLoop(list, errorVar, i) ==
    IF i > Len(list) THEN FALSE
    ELSE IF list[i].kind # "defer" THEN deferLoop(list, errorVar, i + 1)
    ELSE IF isDeferErrStkWrap(list[i], errorVar) THEN TRUE
    ELSE deferLoop(list, errorVar, i + 1)

\* hasDeferErrStkWrap had it looked at the first statement of the body alone
hasDeferErrStkWrap_firstOnly(funcDecl, errorVar) ==
    /\ funcDecl.hasBody /\ Len(funcDecl.body) > 0
    /\ funcDecl.body[1].kind = "defer"
    /\ isDeferErrStkWrap(funcDecl.body[1], errorVar)

\* hasDeferErrStkWrap
hasDeferErrStkWrap(funcDecl, errorVar) ==
    IF ~funcDecl.hasBody THEN FALSE
    ELSE deferLoop(funcDecl.body, errorVar, 1)

----------------------------------------------------------------------------
(***************************************************************************)
(* Suppression directives: nolintPattern, lintIgnorePattern,               *)
(* shouldIgnoreLinter, parseNolintDirectives, createIgnoredRange,          *)
(* isPositionIgnored.                                                      *)
(***************************************************************************)

W_nolint == <<"n", "o", "l", "i", "n", "t">>
W_lint == <<"l", "i", "n", "t">>
W_ignore == <<"i", "g", "n", "o", "r", "e">>
W_file == <<"f", "i", "l", "e">>
W_all == <<"a", "l", "l">>
W_errstklint == <<"e", "r", "r", "s", "t", "k", "l", "i", "n", "t">>
W_unused == <<"u", "n", "u", "s", "e", "d">>

\* \w of the regular expressions, over the characters of the model
WordChars ==
    {"_", "E", "a", "b", "c", "d", "e", "f", "g", "h", "i", "j", "k", "l", "m",
     "n", "o", "p", "q", "r", "s", "t", "u", "v", "w", "x", "y", "z"}

\* \s of the regular expressions
RegexSpace == {" ", "\t"}

\* the length of the longest prefix of s made of characters of set
RECURSIVE RunLen(_, _)
RunLen(s, set) ==
    IF Len(s) > 0 /\ s[1] \in set THEN 1 + RunLen(Tail(s), set) ELSE 0

\* nolintPattern.FindStringSubmatch(text):
\*   ^nolint(?::([\w,]+))?(?:\s|$)
\* ok = a match was found, linters = submatch 1 ("" when the group is absent)
nolintPattern(text) ==
    LET rest == Drop(text, Len(W_nolint))
        n == RunLen(Tail(rest), WordChars \cup {","})
        after == Drop(rest, 1 + n)
        ends(t) == Len(t) = 0 \/ t[1] \in RegexSpace
    IN  IF ~HasPrefix(text, W_nolint) THEN [ok |-> FALSE, linters |-> <<>>]
        ELSE IF Len(rest) > 0 /\ rest[1] = ":" /\ n >= 1 /\ ends(after)
        THEN [ok |-> TRUE, linters |-> SubSeq(rest, 2, 1 + n)]
        ELSE IF ends(rest) THEN [ok |-> TRUE, linters |-> <<>>]
        ELSE [ok |-> FALSE, linters |-> <<>>]

\* lintIgnorePattern.FindStringSubmatch(text):
\*   ^lint:(ignore|file-ignore)\s+(\S+)(?:\s+(.+))?$
\* ok, directiveType = submatch 1, checkName = submatch 2.  The text holds no
\* newline and was trimmed, so after the name either the text ends or
\* spaces and a non-empty reason follow.
lintIgnorePattern(text) ==
    LET none == [ok |-> FALSE, directiveType |-> <<>>, checkName |-> <<>>]
        head == W_lint \o <<":">>
        t1 == Drop(text, Len(head))
        fileIgnore == W_file \o <<"-">> \o W_ignore
        dtype == IF HasPrefix(t1, W_ignore) THEN W_ignore
                 ELSE IF HasPrefix(t1, fileIgnore) THEN fileIgnore
                 ELSE <<>>
        t2 == Drop(t1, Len(dtype))
        sp == RunLen(t2, RegexSpace)
        t3 == Drop(t2, sp)
        nameLen == RunLen(t3, {t3[i] : i \in 1..Len(t3)} \ RegexSpace)
        t4 == Drop(t3, nameLen)
        sp2 == RunLen(t4, RegexSpace)
    IN  IF ~HasPrefix(text, head) \/ dtype = <<>> THEN none
        ELSE IF sp = 0 \/ nameLen = 0 THEN none
        ELSE IF Len(t4) > 0 /\ (sp2 = 0 \/ Len(t4) = sp2) THEN none
        ELSE [ok |-> TRUE, directiveType |-> dtype, checkName |-> Take(t3, nameLen)]

\* the loop of shouldIgnoreLinter over the entries
RECURSIVE linterLoop(_, _)
linterLoop(entries, i) ==
    IF i > Len(entries) THEN FALSE
    ELSE IF TrimSpace(entries[i]) = W_errstklint THEN TRUE
    ELSE linterLoop(entries, i + 1)

\* shouldIgnoreLinter
shouldIgnoreLinter(linters) ==
    IF linters = <<>> \/ linters = W_all THEN TRUE
    ELSE linterLoop(Split(linters, <<",">>), 1)

\* the body of the loop had it not compared the check name of lint:ignore
commentDirective_anyCheck(cText) ==
    LET text == TrimSpace(TrimPrefix(cText, <<"/", "/">>))
        nl == nolintPattern(text)
        li == lintIgnorePattern(text)
    IN  IF nl.ok
        THEN IF shouldIgnoreLinter(nl.linters) THEN "scoped" ELSE "none"
        ELSE IF li.ok
        THEN IF li.directiveType = W_file \o <<"-">> \o W_ignore
             THEN IF li.checkName = W_errstklint THEN "file" ELSE "none"
             ELSE "scoped"
        ELSE "none"

\* What the body of the loop of parseNolintDirectives makes of one comment:
\* "none" (no range), "scoped" (the range of createIgnoredRange) or "file"
\* (the whole-file range)
commentDirective(cText) ==
    LET text == TrimSpace(TrimPrefix(cText, <<"/", "/">>))
        nl == nolintPattern(text)
        li == lintIgnorePattern(text)
    IN  IF nl.ok
        THEN IF shouldIgnoreLinter(nl.linters) THEN "scoped" ELSE "none"
        ELSE IF li.ok
        THEN IF li.checkName = W_errstklint
             THEN IF li.directiveType = W_file \o <<"-">> \o W_ignore
                  THEN "file" ELSE "scoped"
             ELSE "none"
        ELSE "none"

\* token positions: a line and the order within the line
Pos(l, c) == [line |-> l, col |-> c]

PosLess(p, q) == p.line < q.line \/ (p.line = q.line /\ p.col < q.col)

\* the nodes ast.Inspect visits that are a *ast.FuncDecl or a *ast.GenDecl,
\* in its depth-first order: each declaration of the file, then the general
\* declarations nested in its body
RECURSIVE declNodes(_, _)
declNodes(decls, i) ==
    IF i > Len(decls) THEN <<>>
    ELSE <<[pos |-> decls[i].pos, end |-> decls[i].end]>>
         \o decls[i].nested \o declNodes(decls, i + 1)

\* the walk of createIgnoredRange had it taken the first node that ends
\* after commentPos
RECURSIVE nextNodeIndex_enclosing(_, _, _)
nextNodeIndex_enclosing(nodes, commentPos, i) ==
    IF i > Len(nodes) THEN 0
    ELSE IF PosLess(commentPos, nodes[i].end) THEN i
    ELSE nextNodeIndex_enclosing(nodes, commentPos, i + 1)

\* the walk of createIgnoredRange: the first of these nodes that starts
\* after commentPos, or "none"
RECURSIVE nextNodeIndex(_, _, _)
nextNodeIndex(nodes, commentPos, i) ==
    IF i > Len(nodes) THEN 0
    ELSE IF PosLess(commentPos, nodes[i].pos) THEN i
    ELSE nextNodeIndex(nodes, commentPos, i + 1)

\* file.Pos() is the position of the package keyword
fileStartLine(file) == file.package.line

\* file.End() is the end of the last declaration, or of the package name
fileEndLine(file) ==
    IF Len(file.decls) > 0 THEN file.decls[Len(file.decls)].end.line
    ELSE file.package.line

\* createIgnoredRange had it not looked at the line of the package clause
createIgnoredRange_noPkgCheck(commentLine, cg, file) ==
    LET nodes == declNodes(file.decls, 1)
        next == nextNodeIndex(nodes, cg.pos, 1)
    IN  IF next # 0
        THEN [start |-> nodes[next].pos.line, end |-> nodes[next].end.line]
        ELSE [start |-> commentLine, end |-> commentLine]

\* createIgnoredRange had it let the range run on to the end of the file
createIgnoredRange_toFileEnd(commentLine, cg, file) ==
    LET pkgLine == file.package.line
        nodes == declNodes(file.decls, 1)
        next == nextNodeIndex(nodes, cg.pos, 1)
    IN  IF commentLine < pkgLine
        THEN [start |-> fileStartLine(file), end |-> fileEndLine(file)]
        ELSE IF next # 0
        THEN [start |-> nodes[next].pos.line, end |-> fileEndLine(file)]
        ELSE [start |-> commentLine, end |-> commentLine]

\* createIgnoredRange
createIgnoredRange(commentLine, cg, file) ==
    LET pkgLine == file.package.line
        nodes == declNodes(file.decls, 1)
        next == nextNodeIndex(nodes, cg.pos, 1)
    IN  IF commentLine < pkgLine
        THEN [start |-> fileStartLine(file), end |-> fileEndLine(file)]
        ELSE IF next # 0
        THEN [start |-> nodes[next].pos.line, end |-> nodes[next].end.line]
        ELSE [start |-> commentLine, end |-> commentLine]

\* the ranges of one comment had lint:file-ignore been given the range of
\* the next declaration
commentRanges_fileScoped(c, cg, file) ==
    IF commentDirective(c.text) \in {"scoped", "file"}
    THEN <<createIgnoredRange(c.pos.line, cg, file)>>
    ELSE <<>>

\* the ranges one comment of a group adds
commentRanges(c, cg, file) ==
    LET d == commentDirective(c.text)
    IN  IF d = "scoped" THEN <<createIgnoredRange(c.pos.line, cg, file)>>
        ELSE IF d = "file"
        THEN <<[start |-> fileStartLine(file), end |-> fileEndLine(file)]>>
        ELSE <<>>

RECURSIVE groupRanges(_, _, _)
groupRanges(cg, file, j) ==
    IF j > Len(cg.list) THEN <<>>
    ELSE commentRanges(cg.list[j], cg, file) \o groupRanges(cg, file, j + 1)

RECURSIVE fileRanges(_, _)
fileRanges(file, i) ==
    IF i > Len(file.comments) THEN <<>>
    ELSE groupRanges(file.comments[i], file, 1) \o fileRanges(file, i + 1)

\* parseNolintDirectives
parseNolintDirectives(file) == fileRanges(file, 1)

\* isPositionIgnored
isPositionIgnored(pos, ranges) ==
    \E i \in 1..Len(ranges) : pos.line >= ranges[i].start /\ pos.line <= ranges[i].end

----------------------------------------------------------------------------
(***************************************************************************)
(* Bounds and input families.                                              *)
(***************************************************************************)

\* the longest pattern list handed to shouldExclude
MaxPatterns == 2

\* the most statements in a function body
MaxStmts == 2

\* the most arguments of a deferred call
MaxArgs == 2

\* the most entries of FuncType.Results.List
MaxResults == 2

\* the most entries of the linter list of a nolint comment
MaxEntries == 2

SeqsUpTo(S, n) == UNION {[1..k -> S] : k \in 0..n}

NotDone == [done |-> FALSE, value |-> FALSE]

Done(v) == [done |-> TRUE, value |-> v]

\* ---- function declarations ----

VarNames == {"err", "e"}

ArgExprs ==
    {Unary("&", "err"), Unary("&", "e"), Ident("err"), Ident("nil"),
     AddrOfField("err"), Unary("<-", "err")}

FunExprs ==
    {Selector("errstk", "Wrap"), Selector("es", "Wrap"), Selector("errstk", "With"),
     Ident("Wrap"), Ident("println"), DeepSelector("Wrap")}

\* every deferred call of the bounded shapes
RichDefers ==
    {DeferStmt(Call(f, as)) : f \in FunExprs, as \in SeqsUpTo(ArgExprs, MaxArgs)}

GoodDefer(v) == DeferStmt(Call(Selector("errstk", "Wrap"), <<Unary("&", v)>>))

\* the statements the longer bodies are made of
BodyStmts ==
    {GoodDefer("err"), GoodDefer("e"),
     DeferStmt(Call(Selector("es", "Wrap"), <<Unary("&", "err")>>)),
     DeferStmt(Call(Selector("errstk", "With"), <<Unary("&", "err")>>)),
     DeferStmt(Call(Selector("errstk", "Wrap"), <<Ident("err")>>)),
     ExprStmt,
     BlockStmt(<<GoodDefer("err")>>),
     DeferClosure(<<GoodDefer("err")>>)}

ResultTypes == {ErrorType, StringType, LocalErrorType}

\* a result list names all of its entries or none, and no name twice
NameLists == {<<>>, <<"err">>, <<"e">>, <<"e", "err">>, <<"err", "e">>}

RECURSIVE AllNames(_, _)
AllNames(results, i) ==
    IF i > Len(results) THEN <<>>
    ELSE results[i].names \o AllNames(results, i + 1)

WellFormedResults(results) ==
    LET ns == AllNames(results, 1)
    IN  /\ \A i, j \in 1..Len(ns) : i # j => ns[i] # ns[j]
        /\ \/ \A i \in 1..Len(results) : results[i].names = <<>>
           \/ \A i \in 1..Len(results) : results[i].names # <<>>

ResultLists ==
    {rs \in SeqsUpTo([names : NameLists, type : ResultTypes], MaxResults) :
        WellFormedResults(rs)}

\* the result lists the calls of every shape are paired with
FewResultLists ==
    {<<[names |-> <<"err">>, type |-> ErrorType]>>,
     <<[names |-> <<"e">>, type |-> ErrorType]>>,
     <<[names |-> <<>>, type |-> ErrorType]>>}

FuncDeclOf(n, rs, hb, b) == [name |-> n, results |-> rs, hasBody |-> hb, body |-> b]

\* the bodies the result lists of every shape are paired with
FewBodies == {<<>>, <<GoodDefer("err")>>, <<GoodDefer("e")>>}

RuleDecls ==
    {FuncDeclOf("F", rs, TRUE, <<d>>) : rs \in FewResultLists, d \in RichDefers}
    \cup {FuncDeclOf("F", rs, TRUE, b) :
            rs \in FewResultLists, b \in SeqsUpTo(BodyStmts, MaxStmts)}
    \cup {FuncDeclOf("F", rs, TRUE, b) : rs \in ResultLists, b \in FewBodies}
    \cup {FuncDeclOf("F", rs, FALSE, <<>>) : rs \in ResultLists}

\* ---- comments ----

Slashes == <<"/", "/">>

RECURSIVE Join(_, _)
Join(seqs, sep) ==
    IF Len(seqs) = 0 THEN <<>>
    ELSE IF Len(seqs) = 1 THEN seqs[1]
    ELSE seqs[1] \o sep \o Join(Tail(seqs), sep)

W_reason == <<"w", "h", "y">>

\* the entries of a linter list
LinterEntries ==
    {W_errstklint, W_all, W_unused, <<>>, <<" ">> \o W_errstklint,
     <<"E">> \o Tail(W_errstklint), W_errstklint \o <<"x">>}

LinterLists ==
    {Join(es, <<",">>) : es \in (SeqsUpTo(LinterEntries, MaxEntries) \ {<<>>})}

\* what may follow the directive in the comment
Trailers == {<<>>, <<" ">> \o W_reason, <<" ">> \o Slashes \o W_reason}

NolintTexts ==
    {Slashes \o lead \o W_nolint \o tail \o trail :
        lead \in {<<>>, <<" ">>},
        tail \in {<<>>} \cup {<<":">> \o l : l \in LinterLists},
        trail \in Trailers}

CheckNames ==
    {W_errstklint, W_unused, <<"E">> \o Tail(W_errstklint), W_errstklint \o <<"x">>,
     W_errstklint \o <<",">> \o W_unused}

LintIgnoreTexts ==
    {Slashes \o lead \o W_lint \o <<":">> \o kind \o sp \o name \o trail :
        lead \in {<<>>, <<" ">>},
        kind \in {W_ignore, W_file \o <<"-">> \o W_ignore},
        sp \in {<<>>, <<" ">>, <<" ", " ">>},
        name \in CheckNames \cup {<<>>},
        trail \in {<<>>, <<" ">> \o W_reason}}

OtherTexts ==
    {Slashes \o <<" ">> \o W_reason,
     Slashes \o W_nolint \o W_lint,
     <<"/", "*">> \o W_nolint \o <<"*", "/">>}

CommentTexts == NolintTexts \cup LintIgnoreTexts \cup OtherTexts

----------------------------------------------------------------------------
(***************************************************************************)
(* The rule applied to one function declaration.                           *)
(***************************************************************************)

NoIs == [done |-> FALSE, stmt |-> 0, errorVar |-> "", value |-> FALSE]

IdleRule ==
    /\ rDecl = FuncDeclOf("", <<>>, FALSE, <<>>)
    /\ rName = NotDone /\ rHas = NotDone /\ rIs = NoIs

\* errorReturnName := getErrorReturnName(funcDecl, pass.TypesInfo)
RuleName ==
    /\ ~rName.done
    /\ rName' = Done(getErrorReturnName(rDecl))
    /\ UNCHANGED <<rDecl, rHas, rIs, mvars, dvars, avars, lvars>>

\* hasDeferErrStkWrap(funcDecl, errorReturnName)
RuleHas ==
    /\ rName.done /\ rName.value # "" /\ ~rHas.done
    /\ rHas' = Done(hasDeferErrStkWrap(rDecl, rName.value))
    /\ UNCHANGED <<rDecl, rName, rIs, mvars, dvars, avars, lvars>>

\* isDeferErrStkWrap(deferStmt, errorVar) on one defer statement of the body
RuleIs ==
    /\ ~rIs.done
    /\ \E i \in 1..Len(rDecl.body), v \in VarNames :
          /\ rDecl.body[i].kind = "defer"
          /\ rIs' = [done |-> TRUE, stmt |-> i, errorVar |-> v,
                     value |-> isDeferErrStkWrap(rDecl.body[i], v)]
    /\ UNCHANGED <<rDecl, rName, rHas, mvars, dvars, avars, lvars>>

----------------------------------------------------------------------------
(***************************************************************************)
(* The directive parser applied to one comment.                            *)
(***************************************************************************)

IdleDirective == dText = <<>> /\ dResult = [done |-> FALSE, value |-> ""]

\* the body of the loop of parseNolintDirectives on one comment
ParseComment ==
    /\ ~dResult.done
    /\ dResult' = [done |-> TRUE, value |-> commentDirective(dText)]
    /\ UNCHANGED <<dText, mvars, rvars, avars, lvars>>

----------------------------------------------------------------------------
(***************************************************************************)
(* Source files.  A file is laid out from its declarations and at most one *)
(* comment group; the layout gives every node its position.                *)
(*                                                                         *)
(*   item    : [shape, decl]   shape "multi" (a function over several      *)
(*                             lines), "nested" (the same with a general   *)
(*                             declaration in its body), "oneline",        *)
(*                             "nobody" (a declaration without body),      *)
(*                             "gen" (a general declaration)               *)
(*   comment : [at, decl, text]  at "none", "pre" (own line before the     *)
(*                             package clause), "pkg" (end of the package  *)
(*                             line), "above" (own line before declaration *)
(*                             decl), "open" (end of the line of its       *)
(*                             opening brace), "body" / "body2" (own line  *)
(*                             in its body, before / after the nested      *)
(*                             declaration), "close" (end of its last      *)
(*                             line), "eof" (own line after the last       *)
(*                             declaration)                                *)
(***************************************************************************)

\* the most declarations of a file
MaxDecls == 2

NoPos == Pos(0, 0)

FuncNames == <<"F", "G", "H", "K">>

RECURSIVE LayoutDecls(_, _, _, _)
LayoutDecls(items, i, line, cm) ==
    IF i > Len(items)
    THEN [nodes |-> <<>>, cpos |-> IF cm.at = "eof" THEN Pos(line, 1) ELSE NoPos]
    ELSE LET it == items[i]
             here(a) == cm.at = a /\ cm.decl = i
             start == IF here("above") THEN line + 1 ELSE line
             multi == it.shape \in {"multi", "nested"}
             nestedLine == IF here("body") THEN start + 2 ELSE start + 1
             afterNested == IF it.shape = "nested" THEN nestedLine + 1 ELSE nestedLine
             closeLine == IF ~multi THEN start
                          ELSE IF here("body2") THEN afterNested + 1 ELSE afterNested
             node == [kind |-> IF it.shape = "gen" THEN "gen" ELSE "func",
                      pos |-> Pos(start, 1),
                      end |-> Pos(closeLine, 3),
                      nested |-> IF it.shape = "nested"
                                 THEN <<[pos |-> Pos(nestedLine, 1),
                                         end |-> Pos(nestedLine, 2)]>>
                                 ELSE <<>>,
                      name |-> IF it.shape = "gen" THEN "" ELSE FuncNames[i],
                      results |-> it.decl.results,
                      hasBody |-> it.decl.hasBody,
                      body |-> it.decl.body]
             mine == IF here("above") THEN Pos(line, 1)
                     ELSE IF here("open") THEN Pos(start, 4)
                     ELSE IF here("body") THEN Pos(start + 1, 1)
                     ELSE IF here("body2") THEN Pos(afterNested, 1)
                     ELSE IF here("close") THEN Pos(closeLine, 4)
                     ELSE NoPos
             rest == LayoutDecls(items, i + 1, closeLine + 1, cm)
         IN  [nodes |-> <<node>> \o rest.nodes,
              cpos |-> IF mine # NoPos THEN mine ELSE rest.cpos]

BuildFile(name, items, cm) ==
    LET pkgLine == IF cm.at = "pre" THEN 2 ELSE 1
        lay == LayoutDecls(items, 1, pkgLine + 1, cm)
        cpos == IF cm.at = "pre" THEN Pos(1, 1)
                ELSE IF cm.at = "pkg" THEN Pos(pkgLine, 4)
                ELSE lay.cpos
    IN  [name |-> name,
         package |-> Pos(pkgLine, 1),
         decls |-> lay.nodes,
         comments |-> IF cm.at = "none" THEN <<>>
                      ELSE <<[pos |-> cpos,
                              list |-> <<[pos |-> cpos, text |-> cm.text]>>]>>]

\* where a comment can stand in a file of these items
Placements(items) ==
    {[at |-> a, decl |-> 0] : a \in {"pre", "pkg", "eof"}}
    \cup {[at |-> "above", decl |-> i] : i \in 1..Len(items)}
    \cup {[at |-> "close", decl |-> i] : i \in 1..Len(items)}
    \cup {[at |-> a, decl |-> i] :
            a \in {"open", "body"},
            i \in {k \in 1..Len(items) : items[k].shape \in {"multi", "nested"}}}
    \cup {[at |-> "body2", decl |-> i] :
            i \in {k \in 1..Len(items) : items[k].shape = "nested"}}

NoComment == [at |-> "none", decl |-> 0, text |-> <<>>]

CommentsFor(items, texts) ==
    {NoComment}
    \cup {[at |-> pl.at, decl |-> pl.decl, text |-> t] :
            pl \in Placements(items), t \in texts}

ErrResult(n) == <<[names |-> n, type |-> ErrorType]>>

\* a function that violates the rule and one that satisfies it
Violating == FuncDeclOf("", ErrResult(<<"err">>), TRUE, <<>>)
Satisfying == FuncDeclOf("", ErrResult(<<"err">>), TRUE, <<GoodDefer("err")>>)

WithDeclStmt(d) == [d EXCEPT !.body = <<DeclStmt>> \o @]

\* the declarations of the files that carry directives
Items ==
    {[shape |-> sh, decl |-> Violating] : sh \in {"multi", "oneline"}}
    \cup {[shape |-> "nested", decl |-> WithDeclStmt(Violating)]}
    \cup {[shape |-> "multi", decl |-> Satisfying]}
    \cup {[shape |-> "gen", decl |-> FuncDeclOf("", <<>>, FALSE, <<>>)]}

ItemSeqs == SeqsUpTo(Items, MaxDecls) \ {<<>>}

\* the texts of the comments of these files
T_nolint == Slashes \o W_nolint

T_nolint_unused == Slashes \o W_nolint \o <<":">> \o W_unused

T_nolint_errstklint == Slashes \o W_nolint \o <<":">> \o W_errstklint

LintText(kind, name) ==
    Slashes \o W_lint \o <<":">> \o kind \o <<" ">> \o name \o <<" ">> \o W_reason

T_ignore_errstklint == LintText(W_ignore, W_errstklint)

T_ignore_unused == LintText(W_ignore, W_unused)

T_ignore_errstklintx == LintText(W_ignore, W_errstklint \o <<"x">>)

T_file_ignore_errstklint == LintText(W_file \o <<"-">> \o W_ignore, W_errstklint)

T_file_ignore_unused == LintText(W_file \o <<"-">> \o W_ignore, W_unused)

FileTexts ==
    {T_nolint, T_nolint_unused, T_nolint_errstklint,
     T_ignore_errstklint, T_ignore_unused, T_ignore_errstklintx,
     T_file_ignore_errstklint, T_file_ignore_unused}

P_a_go == <<"a", ".", "g", "o">>
P_gen_a_go == <<"g", "e", "n", "/">> \o P_a_go
P_gen_star_go == <<"g", "e", "n", "/", "*", ".", "g", "o">>

\* one function of every bounded signature and body, alone in its file
RuleItems ==
    {[shape |-> "multi", decl |-> FuncDeclOf("", rs, TRUE, b)] :
        rs \in {ErrResult(<<"err">>), ErrResult(<<>>)},
        b \in SeqsUpTo(BodyStmts, MaxStmts)}
    \cup {[shape |-> "multi", decl |-> FuncDeclOf("", rs, TRUE, b)] :
            rs \in {ErrResult(<<"e">>), <<>>,
                    <<[names |-> <<>>, type |-> StringType]>>,
                    <<[names |-> <<"err">>, type |-> LocalErrorType]>>},
            b \in FewBodies}
    \cup {[shape |-> "nobody",
           decl |-> FuncDeclOf("", ErrResult(<<"err">>), FALSE, <<>>)]}

FileNames == {P_a_go, P_gen_a_go}

PassOf(f) == [file |-> f]

----------------------------------------------------------------------------
(***************************************************************************)
(* The analyzer: SetConfig, parseExcludeFlag and run.                      *)
(***************************************************************************)

\* the loop of parseExcludeFlag over the entries
RECURSIVE flagLoop(_, _)
flagLoop(patterns, i) ==
    IF i > Len(patterns) THEN <<>>
    ELSE LET p == TrimSpace(patterns[i])
         IN  (IF p # <<>> THEN <<p>> ELSE <<>>) \o flagLoop(patterns, i + 1)

\* parseExcludeFlag
parseExcludeFlag(flag) ==
    IF flag = <<>> THEN <<>>
    ELSE flagLoop(Split(flag, <<",">>), 1)

\* the function declarations of the pass in the order Preorder visits them
RECURSIVE funcDecls(_, _)
funcDecls(decls, i) ==
    IF i > Len(decls) THEN <<>>
    ELSE (IF decls[i].kind = "func" THEN <<decls[i]>> ELSE <<>>)
         \o funcDecls(decls, i + 1)

PassFuncDecls(p) == funcDecls(p.file.decls, 1)

\* pass.Reportf(funcDecl.Pos(), "function %s returns error but missing defer
\* errstk.Wrap(&%s)", funcDecl.Name.Name, errorReturnName)
Diagnostic(funcDecl, errorReturnName) ==
    [pos |-> funcDecl.pos,
     message |-> <<"function ", funcDecl.name,
                   " returns error but missing defer errstk.Wrap(&",
                   errorReturnName, ")">>]

\* the callback run hands to inspect.Preorder: the diagnostics it reports
\* for one function declaration
visitFuncDecl(funcDecl, filename, patterns, ranges) ==
    LET errorReturnName == getErrorReturnName(funcDecl)
    IN  IF ~funcDecl.hasBody THEN <<>>
        ELSE IF shouldExclude(filename, patterns) THEN <<>>
        ELSE IF isPositionIgnored(funcDecl.pos, ranges) THEN <<>>
        ELSE IF errorReturnName = "" THEN <<>>
        ELSE IF ~hasDeferErrStkWrap(funcDecl, errorReturnName)
        THEN <<Diagnostic(funcDecl, errorReturnName)>>
        ELSE <<>>

NoPass == PassOf(BuildFile(<<>>, <<>>, NoComment))

\* the configurations the plugin hands to SetConfig
Configs == {[Exclude |-> <<>>], [Exclude |-> <<P_gen_star_go>>]}

\* the values of the -exclude flag: not given, and " gen/*.go,"
Flags == {<<>>, <<" ">> \o P_gen_star_go \o <<",">>}

IdleAnalyzer ==
    /\ config = [Exclude |-> <<>>] /\ excludeFlag = <<>>
    /\ pc = "idle" /\ pass = NoPass /\ excludePatterns = <<>>
    /\ ignoredRanges = <<>> /\ visitIdx = 0 /\ diags = <<>>
    /\ setExclude = <<>>

\* SetConfig(cfg); isNil models SetConfig(nil)
SetConfig(isNil, cfg) ==
    /\ pc = "idle"
    /\ config' = IF isNil THEN config ELSE cfg
    /\ setExclude' = IF isNil THEN setExclude ELSE cfg.Exclude
    /\ UNCHANGED <<excludeFlag, pc, pass, excludePatterns, ignoredRanges, visitIdx, diags>>
    /\ UNCHANGED <<mvars, rvars, dvars, lvars>>

\* run(pass) had it stored the patterns it uses in the package variable
RunStart_storesPatterns(p) ==
    /\ pass' = p
    /\ excludePatterns' = IF excludeFlag # <<>> THEN parseExcludeFlag(excludeFlag)
                          ELSE config.Exclude
    /\ config' = [Exclude |-> excludePatterns']
    /\ ignoredRanges' = [f \in {p.file.name} |-> parseNolintDirectives(p.file)]
    /\ visitIdx' = 1
    /\ diags' = <<>>
    /\ pc' = "visit"
    /\ UNCHANGED <<excludeFlag, setExclude, mvars, rvars, dvars, lvars>>

\* run(pass) had it put the patterns of the flag after the configured ones
RunStart_mergesLists(p) ==
    /\ pass' = p
    /\ excludePatterns' = config.Exclude \o parseExcludeFlag(excludeFlag)
    /\ ignoredRanges' = [f \in {p.file.name} |-> parseNolintDirectives(p.file)]
    /\ visitIdx' = 1
    /\ diags' = <<>>
    /\ pc' = "visit"
    /\ UNCHANGED <<config, excludeFlag, setExclude, mvars, rvars, dvars, lvars>>

\* run(pass) up to the call of inspect.Preorder
RunStart(p) ==
    /\ pass' = p
    /\ excludePatterns' = IF excludeFlag # <<>> THEN parseExcludeFlag(excludeFlag)
                          ELSE config.Exclude
    /\ ignoredRanges' = [f \in {p.file.name} |-> parseNolintDirectives(p.file)]
    /\ visitIdx' = 1
    /\ diags' = <<>>
    /\ pc' = "visit"
    /\ UNCHANGED <<config, excludeFlag, setExclude, mvars, rvars, dvars, lvars>>

\* one call of the callback had Reportf put the new diagnostic in front of
\* the earlier ones
Visit_prepend ==
    /\ pc = "visit"
    /\ visitIdx <= Len(PassFuncDecls(pass))
    /\ diags' = visitFuncDecl(PassFuncDecls(pass)[visitIdx], pass.file.name,
                              excludePatterns, ignoredRanges[pass.file.name]) \o diags
    /\ visitIdx' = visitIdx + 1
    /\ UNCHANGED <<config, excludeFlag, pc, pass, excludePatterns, ignoredRanges, setExclude>>
    /\ UNCHANGED <<mvars, rvars, dvars, lvars>>

\* one call of the callback by inspect.Preorder
Visit ==
    /\ pc = "visit"
    /\ visitIdx <= Len(PassFuncDecls(pass))
    /\ diags' = diags \o visitFuncDecl(PassFuncDecls(pass)[visitIdx], pass.file.name,
                                       excludePatterns, ignoredRanges[pass.file.name])
    /\ visitIdx' = visitIdx + 1
    /\ UNCHANGED <<config, excludeFlag, pc, pass, excludePatterns, ignoredRanges, setExclude>>
    /\ UNCHANGED <<mvars, rvars, dvars, lvars>>

\* Preorder returns and run returns nil, nil
RunEnd ==
    /\ pc = "visit"
    /\ visitIdx > Len(PassFuncDecls(pass))
    /\ pc' = "done"
    /\ UNCHANGED <<config, excludeFlag, pass, excludePatterns, ignoredRanges, visitIdx, diags,
                   setExclude>>
    /\ UNCHANGED <<mvars, rvars, dvars, lvars>>

\* run has returned: its locals and the pass are gone, the package variables
\* stay, and the driver may call SetConfig or run again
RunReturn ==
    /\ pc = "done"
    /\ pc' = "idle" /\ pass' = NoPass /\ excludePatterns' = <<>>
    /\ ignoredRanges' = <<>> /\ visitIdx' = 0 /\ diags' = <<>>
    /\ UNCHANGED <<config, excludeFlag, setExclude, mvars, rvars, dvars, lvars>>

----------------------------------------------------------------------------
(***************************************************************************)
(* Package errstk.  An error value is a record: its dynamic type (kind),   *)
(* its text, the errors it wraps (kids) and, for a *withStack, the program *)
(* counters it captured.                                                   *)
(***************************************************************************)

\* the nil error
NilErr == [kind |-> "nil", msg |-> "", kids |-> <<>>, stack |-> <<>>]

\* errors.New(text)
errorsNew(text) == [kind |-> "errorString", msg |-> text, kids |-> <<>>, stack |-> <<>>]

\* fmt.Errorf("...: %w", err), whose result has Unwrap() error
fmtErrorf(err) == [kind |-> "wrapError", msg |-> "", kids |-> <<err>>, stack |-> <<>>]

\* errors.Join(errs...): nil values are dropped, the result has
\* Unwrap() []error and is nil when every value is nil
errorsJoin(errs) ==
    LET nonNil == SelectSeq(errs, LAMBDA e : e # NilErr)
    IN  IF nonNil = <<>> THEN NilErr
        ELSE [kind |-> "joinError", msg |-> "", kids |-> nonNil, stack |-> <<>>]

\* (*withStack).Unwrap had it hidden the embedded error
Unwrap_hidden(w) == NilErr

\* (*withStack).Unwrap: the embedded error
Unwrap(w) == w.kids[1]

\* errors.Unwrap(err): the result of err's Unwrap() error method, nil when
\* it has none
errorsUnwrap(err) ==
    IF err.kind = "withStack" THEN Unwrap(err)
    ELSE IF err.kind = "wrapError" THEN err.kids[1]
    ELSE NilErr

\* errors.As(err, &stackError) for stackError of type *withStack: the
\* depth-first search of err's tree for a *withStack
RECURSIVE errorsAs(_)
RECURSIVE asLoop(_, _)
errorsAs(err) ==
    IF err = NilErr THEN FALSE
    ELSE IF err.kind = "withStack" THEN TRUE
    ELSE IF err.kind = "joinError" THEN asLoop(err.kids, 1)
    ELSE errorsAs(errorsUnwrap(err))

\* the loop of errors.As over the values of Unwrap() []error
asLoop(errs, i) ==
    IF i > Len(errs) THEN FALSE
    ELSE IF errorsAs(errs[i]) THEN TRUE
    ELSE asLoop(errs, i + 1)

\* errors.Is(err, target): the depth-first search of err's tree for target
RECURSIVE errorsIs(_, _)
RECURSIVE isLoop(_, _, _)
errorsIs(err, target) ==
    IF err = NilErr THEN target = NilErr
    ELSE IF err = target THEN TRUE
    ELSE IF err.kind = "joinError" THEN isLoop(err.kids, target, 1)
    ELSE IF errorsUnwrap(err) = NilErr THEN FALSE
    ELSE errorsIs(errorsUnwrap(err), target)

\* the loop of errors.Is over the values of Unwrap() []error
isLoop(errs, target, i) ==
    IF i > Len(errs) THEN FALSE
    ELSE IF errorsIs(errs[i], target) THEN TRUE
    ELSE isLoop(errs, target, i + 1)

\* innerWithStack had it not asked errors.As
innerWithStack_alwaysWraps(err, callStack) ==
    IF err = NilErr THEN NilErr
    ELSE [kind |-> "withStack", msg |-> "", kids |-> <<err>>, stack |-> callStack]

\* innerWithStack had it looked at the dynamic type of err only
innerWithStack_topOnly(err, callStack) ==
    IF err = NilErr THEN NilErr
    ELSE IF err.kind = "withStack" THEN err
    ELSE [kind |-> "withStack", msg |-> "", kids |-> <<err>>, stack |-> callStack]

\* innerWithStack had it wrapped a nil error too
innerWithStack_wrapsNil(err, callStack) ==
    IF errorsAs(err) THEN err
    ELSE [kind |-> "withStack", msg |-> "", kids |-> <<err>>, stack |-> callStack]

\* innerWithStack(err, skip); callStack is what callers(skip,
\* DefaultMaxStackDepth) captures at the call
innerWithStack(err, callStack) ==
    IF err = NilErr THEN NilErr
    ELSE IF errorsAs(err) THEN err
    ELSE [kind |-> "withStack", msg |-> "", kids |-> <<err>>, stack |-> callStack]

\* With(err)
With(err, callStack) == innerWithStack(err, callStack)

\* Wrap(errp): the value of *errp when Wrap returns
Wrap(errp, callStack) ==
    IF errp # NilErr THEN innerWithStack(errp, callStack) ELSE errp

\* stackFramesFromPC
stackFramesFromPC(stack) == [i \in 1..Len(stack) |-> [ProgramCounter |-> stack[i]]]

\* WalkStack had it returned after the first call of f
RECURSIVE WalkStack_firstOnly(_)
RECURSIVE walkLoop_firstOnly(_, _)
WalkStack_firstOnly(err) ==
    IF err = NilErr THEN <<>>
    ELSE IF err.kind = "withStack"
    THEN <<[err |-> err, frames |-> stackFramesFromPC(err.stack)]>>
    ELSE IF err.kind = "joinError" THEN walkLoop_firstOnly(err.kids, 1)
    ELSE IF errorsUnwrap(err) # NilErr THEN WalkStack_firstOnly(errorsUnwrap(err))
    ELSE <<>>

walkLoop_firstOnly(errs, i) ==
    IF i > Len(errs) THEN <<>>
    ELSE IF WalkStack_firstOnly(errs[i]) # <<>> THEN WalkStack_firstOnly(errs[i])
    ELSE walkLoop_firstOnly(errs, i + 1)

\* WalkStack(err, f): the calls of f it makes, in order
RECURSIVE WalkStack(_)
RECURSIVE walkLoop(_, _)
WalkStack(err) ==
    IF err = NilErr THEN <<>>
    ELSE (IF err.kind = "withStack"
          THEN <<[err |-> err, frames |-> stackFramesFromPC(err.stack)]>>
          ELSE <<>>)
         \o (IF err.kind = "joinError" THEN walkLoop(err.kids, 1)
             ELSE IF errorsUnwrap(err) # NilErr THEN WalkStack(errorsUnwrap(err))
             ELSE <<>>)

\* the loop of WalkStack over the values of Unwrap() []error
walkLoop(errs, i) ==
    IF i > Len(errs) THEN <<>>
    ELSE WalkStack(errs[i]) \o walkLoop(errs, i + 1)

\* ---- the caller ----

\* the most error values the caller's two variables hold, a wrapped error
\* counting with its wrapper
MaxNodes == 8

\* the number of error values in the tree of err
RECURSIVE Nodes(_)
RECURSIVE nodesLoop(_, _)
Nodes(err) == IF err = NilErr THEN 0 ELSE 1 + nodesLoop(err.kids, 1)

nodesLoop(errs, i) ==
    IF i > Len(errs) THEN 0 ELSE Nodes(errs[i]) + nodesLoop(errs, i + 1)

\* the texts of the errors the caller makes
ErrTexts == {"a", "b"}

\* the program counters of the caller's stack at its calls of With and Wrap
CallStacks == {<<"pc1">>, <<"pc2", "pc1">>}

NoCalls == [done |-> FALSE, value |-> <<>>]

IdleLib ==
    /\ lErr = NilErr /\ lOther = NilErr
    /\ lOp = "init" /\ lArg = NilErr /\ lCalls = NoCalls

\* the caller's variables after a call that stores result in err
Stored(op, arg, result) ==
    /\ Nodes(result) + Nodes(lOther) <= MaxNodes
    /\ lErr' = result /\ lOp' = op /\ lArg' = arg /\ lCalls' = NoCalls
    /\ UNCHANGED <<lOther, mvars, rvars, dvars, avars>>

\* err = nil
LibClear == Stored("Clear", NilErr, NilErr)

\* err = errors.New(text)
LibNew(text) == Stored("New", NilErr, errorsNew(text))

\* err = fmt.Errorf("...: %w", err)
LibErrorf == lErr # NilErr /\ Stored("Errorf", NilErr, fmtErrorf(lErr))

\* err = errors.Join(err, other) or errors.Join(other, err)
LibJoin(otherFirst) ==
    Stored("Join", NilErr,
           errorsJoin(IF otherFirst THEN <<lOther, lErr>> ELSE <<lErr, lOther>>))

\* other = err
LibStore ==
    /\ 2 * Nodes(lErr) <= MaxNodes
    /\ lOther' = lErr /\ lOp' = "Store" /\ lArg' = NilErr /\ lCalls' = NoCalls
    /\ UNCHANGED <<lErr, mvars, rvars, dvars, avars>>

\* err = With(err)
LibWith(callStack) == Stored("With", lErr, With(lErr, callStack))

\* Wrap(&err)
LibWrap(callStack) == Stored("Wrap", lErr, Wrap(lErr, callStack))

\* WalkStack(err, f) with an f that records its calls
LibWalk ==
    /\ lCalls' = [done |-> TRUE, value |-> WalkStack(lErr)]
    /\ lOp' = "WalkStack" /\ lArg' = lErr
    /\ UNCHANGED <<lErr, lOther, mvars, rvars, dvars, avars>>

----------------------------------------------------------------------------
(***************************************************************************)
(* The exclusion engine applied to one path.  The paths and patterns are   *)
(* those of TestShouldExclude and TestMatchDoubleStarPattern with shorter  *)
(* names.                                                                  *)
(***************************************************************************)

\* the paths, each standing for the path of the tests named beside it
MatchFiles ==
    {<<"p", "/", "m", ".", "y", ".", "g", "o">>,    \* infra/persistence/model.yo.go
     <<"p", "/", "n", "y", ".", "g", "o">>,    \* infra/persistence/usernotification.go
     <<"p", "/", "g", "e", "n", ".", "g", "o">>,    \* pkg/generated.go
     <<"p", "/", "m", "g", "e", "n", ".", "g", "o">>,    \* pkg/mygenerated.go
     <<"g", "e", "n", "/", "a", ".", "g", "o">>,    \* generated/a.go
     <<"p", "/", "s", "/", "a", "/", "h", "/", "u", ".", "g", "o">>,    \* project/service/api/handler/user.go
     <<"p", "/", "a", "/", "s", "/", "u", ".", "g", "o">>,    \* project/api/service/user.go
     <<"p", "/", "i", "/", "u", ".", "g", "o">>,    \* project/infra/persistence/user.go
     <<".", "/", "p", "/", "m", ".", "y", ".", "g", "o">>,    \* ./infra/persistence/model.yo.go
     <<"a", ".", "g", "o">>,    \* a.go
     <<"p", "/", "g", "e", "n", "/", "a", ".", "g", "o">>,    \* /project/generated/a.go
     <<"p", "/", "[", "a", ".", "g", "o">>}    \* project/[a.go

\* the patterns, each standing for the pattern named beside it
MatchPatterns ==
    {<<"*", "*", "/", "*", ".", "y", ".", "g", "o">>,    \* **/*.yo.go
     <<"*", "*", "/", "g", "e", "n", ".", "g", "o">>,    \* **/generated.go
     <<"*", "*", "/", "s", "/", "a", "/", "*", "*", "/", "*", ".", "g", "o">>,    \* **/service/api/**/*.go
     <<"*", "*", "/", "s", "/", "*", "*", "/", "a", "/", "*", "*", "/", "*", ".", "g", "o">>,    \* **/service/**/api/**/*.go
     <<"p", "/", "*", "*", "/", "u", ".", "g", "o">>,    \* project/**/user.go
     <<"g", "e", "n", "/", "*", "*">>,    \* generated/**
     <<"g", "e", "n", "/", "*", ".", "g", "o">>,    \* generated/*.go
     <<"*", ".", "g", "o">>,    \* *.go
     <<"p", "/", "g", "e", "n", ".", "g", "o">>,    \* pkg/generated.go
     <<"[", "a", ".", "g", "o">>,    \* [a.go (unterminated class)
     <<"p", "/", "*", "*", "/", "[", "a", ".", "g", "o">>}    \* project/**/[a.go

\* further patterns handed to matchDoubleStarPattern alone
StarPatterns ==
    {<<"p", "/", "*", "*", "/", "p", "/", "g", "e", "n", ".", "g", "o">>,    \* pkg/**/pkg/generated.go
     <<"*", "*", "/", "g", "e", "n", "/", "*", "*">>,    \* **/generated/**
     <<"*", "*">>,    \* **
     <<"*", "*", "/", "*", "*">>}    \* **/**

NoStar == [done |-> FALSE, pattern |-> <<>>, value |-> FALSE]

IdleMatch ==
    /\ mFilename = <<>> /\ mPatterns = <<>>
    /\ mResult = NotDone /\ mPrev = NotDone /\ mOp = "init" /\ mStar = NoStar

\* shouldExclude(filename, patterns) on the list as it stands
Exclude ==
    /\ mOp = "init"
    /\ mResult' = Done(shouldExclude(mFilename, mPatterns))
    /\ mOp' = "call"
    /\ UNCHANGED <<mFilename, mPatterns, mPrev, mStar, rvars, dvars, avars, lvars>>

\* shouldExclude(filename, append(patterns, p))
AddPattern(p) ==
    /\ mOp \in {"call", "add", "swap"}
    /\ Len(mPatterns) < MaxPatterns
    /\ mPatterns' = Append(mPatterns, p)
    /\ mPrev' = mResult
    /\ mResult' = Done(shouldExclude(mFilename, mPatterns'))
    /\ mOp' = "add"
    /\ UNCHANGED <<mFilename, mStar, rvars, dvars, avars, lvars>>

\* shouldExclude(filename, patterns) with the patterns i and j exchanged
SwapPatterns(i, j) ==
    /\ mOp \in {"call", "add", "swap"}
    /\ mPatterns' = [mPatterns EXCEPT ![i] = mPatterns[j], ![j] = mPatterns[i]]
    /\ mPrev' = mResult
    /\ mResult' = Done(shouldExclude(mFilename, mPatterns'))
    /\ mOp' = "swap"
    /\ UNCHANGED <<mFilename, mStar, rvars, dvars, avars, lvars>>

\* matchDoubleStarPattern(filename, pattern), as shouldExclude calls it
DoubleStar(p) ==
    /\ mOp = "init"
    /\ Contains(ToSlash(p), <<"*", "*">>)
    /\ mStar' = [done |-> TRUE, pattern |-> ToSlash(p),
                 value |-> matchDoubleStarPattern(ToSlash(mFilename), ToSlash(p))]
    /\ mOp' = "star"
    /\ UNCHANGED <<mFilename, mPatterns, mResult, mPrev, rvars, dvars, avars, lvars>>

SpecMatchInit ==
    /\ mFilename \in MatchFiles /\ mPatterns = <<>>
    /\ mResult = NotDone /\ mPrev = NotDone /\ mOp = "init" /\ mStar = NoStar
    /\ IdleRule /\ IdleDirective /\ IdleAnalyzer /\ IdleLib

SpecMatchNext ==
    \/ Exclude
    \/ \E p \in MatchPatterns : AddPattern(p)
    \/ \E i, j \in 1..Len(mPatterns) : i < j /\ SwapPatterns(i, j)
    \/ \E p \in MatchPatterns \cup StarPatterns : DoubleStar(p)

SpecMatch == SpecMatchInit /\ [][SpecMatchNext]_vars

SpecRuleInit ==
    /\ rDecl \in RuleDecls
    /\ rName = NotDone /\ rHas = NotDone /\ rIs = NoIs
    /\ IdleMatch /\ IdleDirective /\ IdleAnalyzer /\ IdleLib

SpecRuleNext == RuleName \/ RuleHas \/ RuleIs

SpecRule == SpecRuleInit /\ [][SpecRuleNext]_vars

SpecDirectiveInit ==
    /\ dText \in CommentTexts
    /\ dResult = [done |-> FALSE, value |-> ""]
    /\ IdleMatch /\ IdleRule /\ IdleAnalyzer /\ IdleLib

SpecDirectiveNext == ParseComment

SpecDirective == SpecDirectiveInit /\ [][SpecDirectiveNext]_vars

SpecLibInit == IdleLib /\ IdleMatch /\ IdleRule /\ IdleDirective /\ IdleAnalyzer

SpecLibNext ==
    \/ LibClear
    \/ \E text \in ErrTexts : LibNew(text)
    \/ LibErrorf
    \/ \E otherFirst \in BOOLEAN : LibJoin(otherFirst)
    \/ LibStore
    \/ \E callStack \in CallStacks : LibWith(callStack)
    \/ \E callStack \in CallStacks : LibWrap(callStack)
    \/ LibWalk

SpecLib == SpecLibInit /\ [][SpecLibNext]_vars

\* further values of the -exclude flag: ", ,", "a.go , gen/*.go" and
\* ",gen/*.go,,a.go"
FlagTexts ==
    Flags
    \cup {<<",", " ", ",">>,
          P_a_go \o <<" ", ",", " ">> \o P_gen_star_go,
          <<",">> \o P_gen_star_go \o <<",", ",">> \o P_a_go}

\* runs over one declaration under every value of the flag
SpecFlagInit ==
    /\ config = [Exclude |-> <<>>]
    /\ excludeFlag \in FlagTexts
    /\ pc = "idle" /\ pass = NoPass /\ excludePatterns = <<>>
    /\ ignoredRanges = <<>> /\ visitIdx = 0 /\ diags = <<>>
    /\ setExclude = <<>>
    /\ IdleMatch /\ IdleRule /\ IdleDirective /\ IdleLib

SpecFlagNext ==
    \/ \E isNil \in BOOLEAN, cfg \in Configs : SetConfig(isNil, cfg)
    \/ /\ pc = "idle"
       /\ \E n \in FileNames, it \in Items :
             RunStart(PassOf(BuildFile(n, <<it>>, NoComment)))
    \/ Visit
    \/ RunEnd
    \/ RunReturn

SpecFlag == SpecFlagInit /\ [][SpecFlagNext]_vars

Init ==
    /\ config = [Exclude |-> <<>>]
    /\ excludeFlag \in Flags
    /\ pc = "idle" /\ pass = NoPass /\ excludePatterns = <<>>
    /\ ignoredRanges = <<>> /\ visitIdx = 0 /\ diags = <<>>
    /\ setExclude = <<>>
    /\ IdleMatch /\ IdleRule /\ IdleDirective /\ IdleLib

Next ==
    \/ \E isNil \in BOOLEAN, cfg \in Configs : SetConfig(isNil, cfg)
    \/ /\ pc = "idle"
       /\ \E items \in ItemSeqs : \E cm \in CommentsFor(items, FileTexts) :
             RunStart(PassOf(BuildFile(P_a_go, items, cm)))
    \/ /\ pc = "idle"
       /\ \E n \in FileNames, it \in RuleItems :
             RunStart(PassOf(BuildFile(n, <<it>>, NoComment)))
    \/ Visit
    \/ RunEnd
    \/ RunReturn

Spec == Init /\ [][Next]_vars

----------------------------------------------------------------------------
(***************************************************************************)
(* What the specification says of the rule, stated on the syntax tree      *)
(* without the code's control flow.                                        *)
(***************************************************************************)

\* the qualifiers of the bounded calls
Qualifiers == {"errstk", "es"}

\* the call is <ident>.Wrap(&v, ...)
SatisfiesRule(call, v) ==
    /\ \E q \in Qualifiers : call.fun = Selector(q, "Wrap")
    /\ Len(call.args) >= 1
    /\ call.args[1] = Unary("&", v)

\* the entries of the result list whose type is the built-in error
ErrorSlots(fd) == {i \in 1..Len(fd.results) : fd.results[i].type = ErrorType}

\* the subject variable: the first name of the first error slot, or err
SubjectVar(fd) ==
    LET i == CHOOSE k \in ErrorSlots(fd) : \A j \in ErrorSlots(fd) : k <= j
    IN  IF fd.results[i].names # <<>> THEN fd.results[i].names[1] ELSE "err"

\* some top-level defer statement of the body is a satisfying call
HasSatisfyingDefer(fd) ==
    \E i \in 1..Len(fd.body) :
        fd.body[i].kind = "defer" /\ SatisfiesRule(fd.body[i].call, SubjectVar(fd))

\* the function declarations the callback has been called on
Visited ==
    IF pc = "idle" THEN {}
    ELSE {PassFuncDecls(pass)[i] : i \in 1..(visitIdx - 1)}

\* the diagnostics reported at the position of fd
DiagsAt(fd) == {i \in 1..Len(diags) : diags[i].pos = fd.pos}

\* the rule applies to fd in this run: body, error slot, not excluded, not
\* inside a suppression range
Considered(fd) ==
    /\ fd.hasBody /\ ErrorSlots(fd) # {}
    /\ ~shouldExclude(pass.file.name, excludePatterns)
    /\ ~isPositionIgnored(fd.pos, ignoredRanges[pass.file.name])

\* the text of the diagnostic for fd
MessageFor(fd) ==
    <<"function ", fd.name, " returns error but missing defer errstk.Wrap(&",
      SubjectVar(fd), ")">>

\* C1: for every function the rule applies to, run reports nothing when a
\* top-level defer is a satisfying Wrap call on the subject variable, and
\* otherwise exactly one diagnostic, at the function, naming the function and
\* the subject variable.
C1_OneDiagnosticUnlessWrapped ==
    \A fd \in Visited :
        Considered(fd) =>
            IF HasSatisfyingDefer(fd) THEN DiagsAt(fd) = {}
            ELSE /\ Cardinality(DiagsAt(fd)) = 1
                 /\ \A i \in DiagsAt(fd) : diags[i].message = MessageFor(fd)

\* a run that reported exactly one diagnostic, for a function whose deferred
\* call has another callee name, and none for a function that is wrapped
C1_Witness ==
    /\ pc = "done"
    /\ Len(diags) = 1
    /\ \E fd \in Visited :
          /\ Considered(fd) /\ ~HasSatisfyingDefer(fd)
          /\ \E i \in 1..Len(fd.body) :
                fd.body[i] = DeferStmt(Call(Selector("errstk", "With"),
                                            <<Unary("&", "err")>>))
          /\ diags[1].message = MessageFor(fd)

\* C2: a function with no body, no results or no result of the built-in
\* error type has no diagnostic, whatever the patterns and directives.
C2_NoErrorSlotNoDiagnostic ==
    \A fd \in Visited :
        (~fd.hasBody \/ fd.results = <<>> \/ ErrorSlots(fd) = {}) => DiagsAt(fd) = {}

\* a finished run over a function whose only result has a declared type
\* named error, and whose body defers nothing
C2_Witness ==
    /\ pc = "done"
    /\ \E fd \in Visited :
          /\ fd.hasBody /\ fd.results # <<>> /\ ErrorSlots(fd) = {}
          /\ fd.results[1].type = LocalErrorType
          /\ fd.body = <<>>
          /\ DiagsAt(fd) = {}

CommentsOf(file) ==
    UNION {{file.comments[i].list[j] : j \in 1..Len(file.comments[i].list)} :
              i \in 1..Len(file.comments)}

\* fd has a body and an error slot, defers no satisfying call and its file is
\* not excluded: it is reported unless a directive suppresses it
Violates(fd) ==
    /\ fd.hasBody /\ ErrorSlots(fd) # {} /\ ~HasSatisfyingDefer(fd)
    /\ ~shouldExclude(pass.file.name, excludePatterns)

\* the comment stands after the package clause, on the line just above fd
ImmediatelyAbove(c, fd) ==
    /\ PosLess(pass.file.package, c.pos)
    /\ c.pos.line + 1 = fd.pos.line

\* C4: a violating function with lint:ignore errstklint <reason> on the line
\* above it has no diagnostic; with lint:ignore naming another checker it
\* keeps its diagnostic.
C4_LintIgnoreNamesThisChecker ==
    \A fd \in Visited : \A c \in CommentsOf(pass.file) :
        (Violates(fd) /\ ImmediatelyAbove(c, fd)) =>
            /\ c.text = T_ignore_errstklint => DiagsAt(fd) = {}
            /\ c.text \in {T_ignore_unused, T_ignore_errstklintx} =>
                  Cardinality(DiagsAt(fd)) = 1

\* a finished run over a violating function under lint:ignore errstklint why
C4_Witness ==
    /\ pc = "done"
    /\ \E fd \in Visited : \E c \in CommentsOf(pass.file) :
          /\ Violates(fd) /\ ImmediatelyAbove(c, fd)
          /\ c.text = T_ignore_errstklint
          /\ DiagsAt(fd) = {}

\* a range that covers every declaration of the file
CoversFile(r, file) ==
    \A i \in 1..Len(file.decls) :
        r.start <= file.decls[i].pos.line /\ file.decls[i].end.line <= r.end

HasWholeFileRange ==
    \E i \in 1..Len(ignoredRanges[pass.file.name]) :
        CoversFile(ignoredRanges[pass.file.name][i], pass.file)

\* C6: lint:file-ignore errstklint anywhere in the file gives a range over
\* the whole file and the run reports nothing; lint:file-ignore naming
\* another checker gives no range and every violating function is reported.
C6_FileIgnoreAnywhere ==
    pc # "idle" =>
        \A c \in CommentsOf(pass.file) :
            /\ c.text = T_file_ignore_errstklint =>
                  HasWholeFileRange /\ diags = <<>>
            /\ c.text = T_file_ignore_unused =>
                  /\ ignoredRanges[pass.file.name] = <<>>
                  /\ \A fd \in Visited : Violates(fd) => Cardinality(DiagsAt(fd)) = 1

\* a finished run over a file whose lint:file-ignore errstklint comment comes
\* after the start of a violating function
C6_Witness ==
    /\ pc = "done"
    /\ diags = <<>>
    /\ \E fd \in Visited : \E c \in CommentsOf(pass.file) :
          /\ Violates(fd)
          /\ c.text = T_file_ignore_errstklint
          /\ PosLess(fd.pos, c.pos)

\* the directives of either family that apply to this checker
ApplyingTexts ==
    {T_nolint, T_nolint_errstklint, T_ignore_errstklint, T_file_ignore_errstklint}

\* C7: an applying directive on a line before the package clause gives a
\* range over the whole file, and the run reports nothing for that file.
C7_BeforePackageWholeFile ==
    pc # "idle" =>
        \A c \in CommentsOf(pass.file) :
            (c.text \in ApplyingTexts /\ c.pos.line < pass.file.package.line) =>
                HasWholeFileRange /\ diags = <<>>

\* a finished run over two violating functions under a nolint comment before
\* the package clause
C7_Witness ==
    /\ pc = "done"
    /\ diags = <<>>
    /\ Cardinality({fd \in Visited : Violates(fd)}) >= 2
    /\ \E c \in CommentsOf(pass.file) :
          c.text = T_nolint /\ c.pos.line < pass.file.package.line

(***************************************************************************)
(* What the specification says of the nolint comments.                     *)
(***************************************************************************)

\* the list is empty, is exactly all, or has the entry errstklint once each
\* entry is trimmed
ListApplies(list) ==
    \/ list = <<>>
    \/ list = W_all
    \/ \E i \in 1..Len(Split(list, <<",">>)) :
          TrimSpace(Split(list, <<",">>)[i]) = W_errstklint

\* C5: a nolint comment applies to this checker iff its linter list is
\* absent, is empty, is exactly all, or has errstklint among its
\* comma-separated entries after each entry is trimmed.  Stated for the
\* comments that end with the keyword or with the list.
C5_NolintAppliesByList ==
    dResult.done =>
        \A lead \in {<<>>, <<" ">>} :
            /\ dText = Slashes \o lead \o W_nolint => dResult.value = "scoped"
            /\ \A list \in LinterLists :
                  dText = Slashes \o lead \o W_nolint \o <<":">> \o list =>
                      ((dResult.value = "scoped") <=> ListApplies(list))

(***************************************************************************)
(* What the specification says of the exclusion engine.                    *)
(***************************************************************************)

\* C8: shouldExclude is false for the empty list and otherwise true iff some
\* pattern of the list excludes the path by itself; adding a pattern never
\* turns true into false, and exchanging two patterns changes nothing.
C8_ExcludeIsAnyPattern ==
    /\ mResult.done =>
          mResult.value =
              \E i \in 1..Len(mPatterns) : shouldExclude(mFilename, <<mPatterns[i]>>)
    /\ (mResult.done /\ mPatterns = <<>>) => ~mResult.value
    /\ mOp = "add" => (mPrev.value => mResult.value)
    /\ mOp = "swap" => mResult.value = mPrev.value

\* after an exchange the path is excluded by the second pattern alone
C8_Witness ==
    /\ mOp = "swap" /\ mResult.value /\ Len(mPatterns) = 2
    /\ ~shouldExclude(mFilename, <<mPatterns[1]>>)
    /\ shouldExclude(mFilename, <<mPatterns[2]>>)

\* the pattern is **/<tail> and the tail holds no separator and no **
IsStarTail(pattern) ==
    /\ HasPrefix(pattern, <<"*", "*", "/">>)
    /\ ~Contains(Drop(pattern, 3), <<"/">>)
    /\ ~Contains(Drop(pattern, 3), <<"*", "*">>)

\* C9: for a pattern **/<tail> whose tail holds no separator the path is
\* excluded only when its final segment as a whole matches the tail.
C9_BoundaryNotSubstring ==
    (mResult.done /\ Len(mPatterns) = 1 /\ IsStarTail(mPatterns[1])) =>
        (mResult.value =>
            Match(Drop(mPatterns[1], 3), Base(ToSlash(mFilename))).matched)

\* the fragments of the pattern before the last one that are not empty
RECURSIVE NonEmpty(_)
NonEmpty(seq) ==
    IF seq = <<>> THEN <<>>
    ELSE (IF Head(seq) # <<>> THEN <<Head(seq)>> ELSE <<>>) \o NonEmpty(Tail(seq))

NonFinalFragments(pattern) ==
    LET parts == DoubleStarParts(pattern)
    IN  NonEmpty(Take(parts, Len(parts) - 1))

FinalFragment(pattern) == DoubleStarParts(pattern)[Len(DoubleStarParts(pattern))]

\* the fragments occur in the filename one after the end of the other
OccurInOrder(filename, frags) ==
    \E at \in [1..Len(frags) -> 0..Len(filename)] :
        \A k \in 1..Len(frags) :
            /\ at[k] + Len(frags[k]) <= Len(filename)
            /\ SubSeq(filename, at[k] + 1, at[k] + Len(frags[k])) = frags[k]
            /\ k > 1 => at[k] >= at[k - 1] + Len(frags[k - 1])

\* C10: matchDoubleStarPattern is true only if the non-empty fragments before
\* the last one occur in the path in the order of the pattern, each after the
\* end of the one before; otherwise it is false even if the last fragment
\* matches the file name.
C10_FragmentsInOrder ==
    mStar.done =>
        (mStar.value =>
            OccurInOrder(ToSlash(mFilename), NonFinalFragments(mStar.pattern)))

\* a path that holds every fragment and whose name matches the last one, but
\* with the fragments in the other order: no match
C10_Witness ==
    /\ mStar.done /\ ~mStar.value
    /\ Len(NonFinalFragments(mStar.pattern)) >= 2
    /\ \A k \in 1..Len(NonFinalFragments(mStar.pattern)) :
          Contains(ToSlash(mFilename), NonFinalFragments(mStar.pattern)[k])
    /\ ~OccurInOrder(ToSlash(mFilename), NonFinalFragments(mStar.pattern))
    /\ Match(FinalFragment(mStar.pattern), Base(ToSlash(mFilename))).matched

\* the glob syntax cannot compile the pattern: filepath.Match reports
\* ErrBadPattern for it, as filepath.Glob tests it
Malformed(pattern) == Match(ToSlash(pattern), <<>>).err

\* C11: a pattern the glob syntax cannot compile, with or without **, never
\* makes shouldExclude true, and the other patterns of the list are still
\* evaluated: the result is true iff some well-formed pattern of the list
\* excludes the path.
C11_MalformedPatternNeverMatches ==
    mResult.done =>
        mResult.value =
            \E i \in 1..Len(mPatterns) :
                /\ ~Malformed(mPatterns[i])
                /\ shouldExclude(mFilename, <<mPatterns[i]>>)

\* the file of the path has a name ending in .go and lies directly in a
\* directory named gen
InGenDir(path) ==
    \E k \in 0..Len(path) :
        /\ k = 0 \/ path[k] = "/"
        /\ HasPrefix(Drop(path, k), <<"g", "e", "n", "/">>)
        /\ ~Contains(Drop(path, k + 4), <<"/">>)
        /\ HasSuffix(Drop(path, k + 4), <<".", "g", "o">>)

\* C12: the pattern generated/*.go excludes every .go file directly in a
\* directory named generated, also when further directories precede it.
C12_GeneratedDirExcluded ==
    (mResult.done /\ mPatterns = <<P_gen_star_go>> /\ InGenDir(ToSlash(mFilename))) =>
        mResult.value

(***************************************************************************)
(* What the specification says of the statements the rule reads.           *)
(***************************************************************************)

\* the statements directly inside a top-level statement: those of an inner
\* block, or of the closure a defer statement calls
NestedStmts(stmt) ==
    IF stmt.kind = "block" THEN stmt.list
    ELSE IF stmt.kind = "defer" THEN stmt.call.inner
    ELSE <<>>

\* a satisfying defer stands inside an inner block or a deferred closure
HasNestedWrap(fd) ==
    \E i \in 1..Len(fd.body) : \E j \in 1..Len(NestedStmts(fd.body[i])) :
        /\ NestedStmts(fd.body[i])[j].kind = "defer"
        /\ SatisfiesRule(NestedStmts(fd.body[i])[j].call, SubjectVar(fd))

\* C13: a satisfying defer that stands only inside an inner block or a
\* deferred closure does not satisfy the rule: the function is reported.
C13_NestedDeferNotInspected ==
    \A fd \in Visited :
        (Considered(fd) /\ HasNestedWrap(fd) /\ ~HasSatisfyingDefer(fd)) =>
            Cardinality(DiagsAt(fd)) = 1

\* a finished run that reported a function whose only Wrap call is deferred
\* inside an inner block
C13_Witness ==
    /\ pc = "done"
    /\ \E fd \in Visited :
          /\ Considered(fd) /\ HasNestedWrap(fd) /\ ~HasSatisfyingDefer(fd)
          /\ \E i \in 1..Len(fd.body) : fd.body[i].kind = "block"
          /\ Cardinality(DiagsAt(fd)) = 1

\* C14: a satisfying top-level defer satisfies the rule at any index of the
\* statement list, whatever statements or defers come before it.
C14_PlacementNotVerified ==
    rHas.done =>
        \A i \in 1..Len(rDecl.body) :
            (/\ rDecl.body[i].kind = "defer"
             /\ SatisfiesRule(rDecl.body[i].call, rName.value)) => rHas.value

\* the satisfying defer is the second statement, after another defer
C14_Witness ==
    /\ rHas.done /\ rHas.value
    /\ Len(rDecl.body) = 2
    /\ rDecl.body[1].kind = "defer"
    /\ ~SatisfiesRule(rDecl.body[1].call, rName.value)
    /\ rDecl.body[2].kind = "defer"
    /\ SatisfiesRule(rDecl.body[2].call, rName.value)

\* C15: the subject variable is the declared name of the error slot, or err
\* when the slot is unnamed; the function passes iff a top-level defer is
\* <ident>.Wrap(&subject), so (e error) passes with &e and not with &err.
C15_SubjectIsDeclaredNameOrErr ==
    /\ (rName.done /\ ErrorSlots(rDecl) # {}) =>
          LET slot == rDecl.results[CHOOSE k \in ErrorSlots(rDecl) :
                                        \A j \in ErrorSlots(rDecl) : k <= j]
          IN  rName.value = IF slot.names = <<>> THEN "err" ELSE slot.names[1]
    /\ rHas.done =>
          rHas.value =
              \E i \in 1..Len(rDecl.body) :
                  /\ rDecl.body[i].kind = "defer"
                  /\ SatisfiesRule(rDecl.body[i].call, SubjectVar(rDecl))

\* a function declaring (e error) that defers Wrap(&err) does not pass
C15_Witness ==
    /\ rHas.done /\ ~rHas.value
    /\ rDecl.results = ErrResult(<<"e">>)
    /\ rDecl.body = <<GoodDefer("err")>>

(***************************************************************************)
(* What the specification says of the sequence of diagnostics.             *)
(***************************************************************************)

\* every diagnostic stands at a visited violating declaration with the
\* message of that declaration
DiagsAtViolations ==
    \A i \in 1..Len(diags) :
        \E fd \in Visited :
            /\ Considered(fd) /\ ~HasSatisfyingDefer(fd)
            /\ diags[i].pos = fd.pos
            /\ diags[i].message = MessageFor(fd)

\* the diagnostics follow the order in which the declarations were visited,
\* so no declaration has two
DiagsInTraversalOrder ==
    \A i, j \in 1..Len(diags) :
        i < j =>
            \E k, l \in 1..(visitIdx - 1) :
                /\ k < l
                /\ PassFuncDecls(pass)[k].pos = diags[i].pos
                /\ PassFuncDecls(pass)[l].pos = diags[j].pos

\* during a run the diagnostics reported so far stay as they are
DiagsOnlyAppended ==
    pc = "visit" =>
        /\ Len(diags') >= Len(diags)
        /\ \A i \in 1..Len(diags) : diags'[i] = diags[i]

\* C16: every diagnostic is at the violating declaration with the message
\* naming it and its subject variable; diagnostics come in traversal order,
\* at most one per declaration; an emitted diagnostic never changes later.
C16_DiagnosticsOrderedAndStable ==
    /\ [](DiagsAtViolations /\ DiagsInTraversalOrder)
    /\ [](\A fd \in Visited : Cardinality(DiagsAt(fd)) <= 1)
    /\ [][DiagsOnlyAppended]_vars

\* a finished run that reported two declarations
C16_Witness ==
    /\ pc = "done"
    /\ Len(diags) = 2
    /\ PosLess(diags[1].pos, diags[2].pos)

(***************************************************************************)
(* What the specification says of the process-wide state.                  *)
(***************************************************************************)

\* a step of a run: every step but a SetConfig call between two runs
RunStep == pc # "idle" \/ pc' # "idle"

\* C17: run never modifies the configuration or the exclude flag;
\* SetConfig(nil) leaves the configuration as it is; a run with an empty
\* exclude flag uses the Exclude list of the most recent non-nil SetConfig
\* argument, the empty list if there was none.
C17_ConfigReadOnlyDuringRun ==
    /\ [](config = [Exclude |-> setExclude])
    /\ []((pc # "idle" /\ excludeFlag = <<>>) => excludePatterns = setExclude)
    /\ [][RunStep => UNCHANGED <<config, excludeFlag>>]_vars

\* a run without the flag that uses the list handed to SetConfig
C17_Witness ==
    /\ pc = "visit" /\ excludeFlag = <<>>
    /\ setExclude = <<P_gen_star_go>>
    /\ excludePatterns = <<P_gen_star_go>>
    /\ shouldExclude(pass.file.name, excludePatterns)

(***************************************************************************)
(* What the specification says of package errstk.                          *)
(***************************************************************************)

\* the last call was With or Wrap on the caller's err
Annotated == lOp \in {"With", "Wrap"}

\* C18: With(nil) returns nil and Wrap on a nil error leaves it nil; for a
\* non-nil error both give a non-nil error.
C18_NilStaysNil ==
    Annotated => (lErr = NilErr <=> lArg = NilErr)

\* With was called on a nil error after the caller had made other errors
C18_Witness ==
    /\ lOp = "With" /\ lArg = NilErr /\ lErr = NilErr
    /\ lOther # NilErr

\* the positions of err's tree, each the child indices leading to it
RECURSIVE Paths(_)
Paths(err) ==
    IF err = NilErr THEN {}
    ELSE {<<>>} \cup UNION {{<<i>> \o p : p \in Paths(err.kids[i])} :
                            i \in 1..Len(err.kids)}

\* the error at a position of err's tree
RECURSIVE NodeAt(_, _)
NodeAt(err, path) ==
    IF path = <<>> THEN err ELSE NodeAt(err.kids[Head(path)], Tail(path))

\* the positions of err's tree that hold a stack-carrying error
StackPaths(err) == {p \in Paths(err) : NodeAt(err, p).kind = "withStack"}

\* C19: when the tree of the error already holds a stack-carrying error,
\* With returns the same error and Wrap leaves *errp as it is; With of a
\* result of With is that result.
C19_NoSecondStack ==
    /\ (Annotated /\ StackPaths(lArg) # {}) => lErr = lArg
    /\ Annotated => \A callStack \in CallStacks : With(lErr, callStack) = lErr

\* With was called on a join whose second error alone carries a stack
C19_Witness ==
    /\ lOp = "With" /\ lErr = lArg
    /\ lArg.kind = "joinError" /\ Len(lArg.kids) = 2
    /\ StackPaths(lArg.kids[1]) = {}
    /\ StackPaths(lArg.kids[2]) # {}
    /\ lArg.kids[2].kind # "withStack"

\* position p comes before position q in depth-first pre-order
PathBefore(p, q) ==
    \/ Len(p) < Len(q) /\ \A i \in 1..Len(p) : p[i] = q[i]
    \/ \E i \in 1..Len(p) :
          /\ i <= Len(q) /\ p[i] < q[i]
          /\ \A j \in 1..(i - 1) : p[j] = q[j]

\* C20: WalkStack calls f once for each stack-carrying error of the tree,
\* in depth-first pre-order, with the frames of that error's stack; never
\* for another error, and not at all for nil.
C20_WalkStackPreOrder ==
    lCalls.done =>
        /\ Len(lCalls.value) = Cardinality(StackPaths(lArg))
        /\ \A p \in StackPaths(lArg) :
              LET k == 1 + Cardinality({q \in StackPaths(lArg) : PathBefore(q, p)})
                  call == lCalls.value[k]
              IN  /\ call.err = NodeAt(lArg, p)
                  /\ Len(call.frames) = Len(call.err.stack)
                  /\ \A i \in 1..Len(call.frames) :
                        call.frames[i].ProgramCounter = call.err.stack[i]

\* WalkStack was called on a join of two errors that each carry a stack
C20_Witness ==
    /\ lCalls.done /\ Len(lCalls.value) = 2
    /\ lArg.kind = "joinError"
    /\ lCalls.value[1].err # lCalls.value[2].err
    /\ \E i \in 1..2 : lArg.kids[i].kind # "withStack"

\* C21: for an error e without a stack, errors.Unwrap of the result of
\* With, and of the value Wrap stores, is e itself, and errors.Is finds in
\* the result every error of e's tree.
C21_ChainPreserved ==
    (Annotated /\ lArg # NilErr) =>
        /\ StackPaths(lArg) = {} => errorsUnwrap(lErr) = lArg
        /\ \A p \in Paths(lArg) : errorsIs(lErr, NodeAt(lArg, p))

\* Wrap stored a stack-carrying error around a join of two errors
C21_Witness ==
    /\ lOp = "Wrap" /\ lErr.kind = "withStack"
    /\ lArg.kind = "joinError" /\ Len(lArg.kids) = 2
    /\ StackPaths(lArg) = {}
    /\ errorsIs(lErr, lArg.kids[2])

(***************************************************************************)
(* What the specification says of the range of a declaration-scoped        *)
(* directive.                                                              *)
(***************************************************************************)

\* the ranges parseNolintDirectives made for the file of the run
Ranges == ignoredRanges[pass.file.name]

\* the directives that apply to this checker and are not lint:file-ignore
ScopedTexts == {T_nolint, T_nolint_errstklint, T_ignore_errstklint}

\* c is a declaration-scoped directive: it applies and its line is not
\* before the package clause
DeclScoped(c) ==
    c.text \in ScopedTexts /\ c.pos.line >= pass.file.package.line

\* the function and general declarations of the file, nested ones included
DeclSpans(file) ==
    {[pos |-> file.decls[i].pos, end |-> file.decls[i].end] : i \in 1..Len(file.decls)}
    \cup UNION {{file.decls[i].nested[j] : j \in 1..Len(file.decls[i].nested)} :
                   i \in 1..Len(file.decls)}

\* the declarations that start strictly after c
After(c) == {n \in DeclSpans(pass.file) : PosLess(c.pos, n.pos)}

\* the first of them in source order
FirstAfter(c) ==
    CHOOSE n \in After(c) : \A m \in After(c) : m = n \/ PosLess(n.pos, m.pos)

LinesOf(n) == [start |-> n.pos.line, end |-> n.end.line]

CommentLine(c) == [start |-> c.pos.line, end |-> c.pos.line]

InSomeRange(fd) ==
    \E i \in 1..Len(Ranges) :
        Ranges[i].start <= fd.pos.line /\ fd.pos.line <= Ranges[i].end

\* C22: the range of a declaration-scoped directive is the line range of the
\* first declaration starting after the comment; a function is skipped iff
\* its start line lies in some range; a directive directly above F
\* suppresses F and not the functions on later lines.
C22_RangeIsNextDeclaration ==
    pc # "idle" =>
        /\ \A c \in CommentsOf(pass.file) :
              (DeclScoped(c) /\ After(c) # {}) =>
                  \E i \in 1..Len(Ranges) : Ranges[i] = LinesOf(FirstAfter(c))
        /\ \A fd \in Visited :
              Violates(fd) => (DiagsAt(fd) = {} <=> InSomeRange(fd))
        /\ \A c \in CommentsOf(pass.file) : \A fd, gd \in Visited :
              (/\ DeclScoped(c) /\ ImmediatelyAbove(c, fd)
               /\ Violates(fd) /\ Violates(gd)
               /\ gd.pos.line > fd.end.line) =>
                  DiagsAt(fd) = {} /\ Cardinality(DiagsAt(gd)) = 1

\* a finished run: the directive above F suppressed F and not the violating
\* function after it
C22_Witness ==
    /\ pc = "done"
    /\ \E c \in CommentsOf(pass.file) : \E fd, gd \in Visited :
          /\ DeclScoped(c) /\ ImmediatelyAbove(c, fd)
          /\ Violates(fd) /\ Violates(gd)
          /\ gd.pos.line > fd.end.line
          /\ DiagsAt(fd) = {} /\ Cardinality(DiagsAt(gd)) = 1

\* C23: when no declaration starts after a declaration-scoped directive, its
\* range is the single comment line and it suppresses no function
\* declaration of the file.
C23_NoNextDeclarationNoEffect ==
    pc # "idle" =>
        \A c \in CommentsOf(pass.file) :
            (DeclScoped(c) /\ After(c) = {}) =>
                /\ \E i \in 1..Len(Ranges) : Ranges[i] = CommentLine(c)
                /\ \A fd \in Visited : Violates(fd) => Cardinality(DiagsAt(fd)) = 1

C24_FinalFragmentTest ==
    (/\ mStar.done
     /\ FinalFragment(mStar.pattern) # <<>>
     /\ OccurInOrder(ToSlash(mFilename), NonFinalFragments(mStar.pattern))) =>
        mStar.value =
            \/ Match(FinalFragment(mStar.pattern), Base(ToSlash(mFilename))).matched
            \/ HasSuffix(ToSlash(mFilename), FinalFragment(mStar.pattern))

\* a match by a last fragment that is a suffix of the path only together
\* with text an earlier fragment consumed
C24_Witness ==
    /\ mStar.done /\ mStar.value
    /\ NonFinalFragments(mStar.pattern) # <<>>
    /\ ~Match(FinalFragment(mStar.pattern), Base(ToSlash(mFilename))).matched
    /\ HasSuffix(ToSlash(mFilename), FinalFragment(mStar.pattern))
    /\ ~OccurInOrder(ToSlash(mFilename),
                     NonFinalFragments(mStar.pattern)
                         \o <<FinalFragment(mStar.pattern)>>)

C25_SingleArgumentOnly ==
    rIs.done =>
        (Len(rDecl.body[rIs.stmt].call.args) # 1 => ~rIs.value)

(***************************************************************************)
(* What the specification says of the -exclude flag.                       *)
(***************************************************************************)

\* the entries of the flag between its commas, each without the white space
\* around it
FlagEntries(flag) ==
    [i \in 1..Len(Split(flag, <<",">>)) |-> TrimSpace(Split(flag, <<",">>)[i])]

\* the flag holds commas and spaces only
OnlySeparators(flag) == \A i \in 1..Len(flag) : flag[i] \in {",", " "}

\* C27: with a non-empty flag run uses the flag's entries alone, trimmed,
\* the empty ones dropped, in their order, and nothing of the configured
\* list; a flag of commas and spaces gives no pattern and excludes nothing.
C27_FlagReplacesConfig ==
    (pc # "idle" /\ excludeFlag # <<>>) =>
        /\ excludePatterns = NonEmpty(FlagEntries(excludeFlag))
        /\ OnlySeparators(excludeFlag) =>
              /\ excludePatterns = <<>>
              /\ \A fd \in Visited :
                    (fd.hasBody /\ ErrorSlots(fd) # {} /\ ~HasSatisfyingDefer(fd)) =>
                        Cardinality(DiagsAt(fd)) = 1

\* a file the configured list excludes is reported under the flag ", ,"
C27_Witness ==
    /\ pc = "done"
    /\ excludeFlag # <<>> /\ OnlySeparators(excludeFlag)
    /\ shouldExclude(pass.file.name, config.Exclude)
    /\ Len(diags) = 1

\* the names the error-typed results of fd declare
ErrorNames(fd) ==
    UNION {{fd.results[i].names[k] : k \in 1..Len(fd.results[i].names)} :
              i \in ErrorSlots(fd)}

\* fd has several error-typed fields, or one that declares several names
SeveralErrors(fd) ==
    \/ Cardinality(ErrorSlots(fd)) >= 2
    \/ \E i \in ErrorSlots(fd) : Len(fd.results[i].names) >= 2

\* C28: with several error results the subject variable is the first name
\* of the first error-typed field; a function whose top-level defers wrap
\* only the address of another error result does not pass.
C28_FirstNameOfFirstErrorField ==
    (rName.done /\ SeveralErrors(rDecl)) =>
        /\ rName.value = SubjectVar(rDecl)
        /\ rHas.done =>
              (rHas.value =>
                  \E i \in 1..Len(rDecl.body) :
                      /\ rDecl.body[i].kind = "defer"
                      /\ SatisfiesRule(rDecl.body[i].call, SubjectVar(rDecl)))

\* (e, err error) with defer errstk.Wrap(&err) does not pass
C28_Witness ==
    /\ rHas.done /\ ~rHas.value
    /\ rDecl.results = ErrResult(<<"e", "err">>)
    /\ rDecl.body = <<GoodDefer("err")>>
    /\ rName.value = "e"

(***************************************************************************)
(* What the specification says of the error values a caller can build.     *)
(***************************************************************************)

\* position p lies above position q in the tree
Above(p, q) == Len(p) < Len(q) /\ \A i \in 1..Len(p) : p[i] = q[i]

\* the longest common start of two positions
CommonStart(p, q) ==
    LET n == CHOOSE k \in 0..Len(p) :
                 /\ k <= Len(q)
                 /\ \A i \in 1..k : p[i] = q[i]
                 /\ (k < Len(p) /\ k < Len(q)) => p[k + 1] # q[k + 1]
    IN  SubSeq(p, 1, n)

\* no stack-carrying error wraps another one, and two stack-carrying errors
\* of one tree lie in different branches of an errors.Join
OneStackPerBranch(err) ==
    \A p, q \in StackPaths(err) :
        p # q =>
            /\ ~Above(p, q)
            /\ NodeAt(err, CommonStart(p, q)).kind = "joinError"

\* no error of the tree has Unwrap() []error
JoinFree(err) == \A p \in Paths(err) : NodeAt(err, p).kind # "joinError"

\* C29: in every error value built by With, Wrap, fmt.Errorf and
\* errors.Join calls no stack-carrying error wraps another one; WalkStack
\* reports at most one stack along a single Unwrap chain, and several only
\* from different branches of an errors.Join.
C29_NoNestedStacks ==
    /\ OneStackPerBranch(lErr)
    /\ OneStackPerBranch(lOther)
    /\ (lCalls.done /\ JoinFree(lArg)) => Len(lCalls.value) <= 1

\* With was called on a join whose two branches each carry a stack
C29_Witness ==
    /\ lOp = "With" /\ lErr.kind = "joinError"
    /\ Cardinality(StackPaths(lErr)) = 2
    /\ \E p \in StackPaths(lErr) : Len(p) = 2

====
